---- MODULE Spec2Model ----
(***************************************************************************)
(* Popula worker: the cohort-component projection engine.                  *)
(*                                                                         *)
(* The state is one CohortComponentModel (engine/ccm.rs), its population   *)
(* map and its three table maps; what run_projection of the projection    *)
(* handler (handlers/projection_handler.rs) holds while it serves a       *)
(* request; and one DemographicEngine (engine/projection.rs) with what    *)
(* its run_projection holds.  f64 values are modelled as exact rationals  *)
(* <<n, d>> (d > 0, lowest terms), so every statement below is a          *)
(* statement over exact arithmetic; floating rounding is not modelled.    *)
(***************************************************************************)
EXTENDS Integers, Sequences, FiniteSets, TLC

(***************************************************************************)
(* Exact arithmetic standing for f64                                       *)
(***************************************************************************)
Abs(x) == IF x < 0 THEN -x ELSE x

RECURSIVE GCD(_, _)
GCD(a, b) == IF b = 0 THEN a ELSE GCD(b, a % b)

\* the rational n/d in lowest terms with a positive denominator
Rat(n, d) ==
    LET s == IF d < 0 THEN -1 ELSE 1
        g == GCD(Abs(n), Abs(d))
    IN  <<(s * n) \div g, (s * d) \div g>>

Zero == <<0, 1>>
One == <<1, 1>>
Hundred == <<100, 1>>
Int2R(n) == <<n, 1>>

RAdd(a, b) ==
    LET g == GCD(a[2], b[2])
    IN  Rat(a[1] * (b[2] \div g) + b[1] * (a[2] \div g), a[2] * (b[2] \div g))
RNeg(a) == <<-a[1], a[2]>>
RSub(a, b) == RAdd(a, RNeg(b))
RMul(a, b) ==
    LET g1 == GCD(Abs(a[1]), b[2])
        g2 == GCD(Abs(b[1]), a[2])
    IN  IF a[1] = 0 \/ b[1] = 0 THEN Zero
        ELSE Rat((a[1] \div g1) * (b[1] \div g2), (a[2] \div g2) * (b[2] \div g1))
RDiv(a, b) == RMul(a, Rat(b[2], b[1]))
RLt(a, b) == a[1] * b[2] < b[1] * a[2]
RLe(a, b) == a[1] * b[2] <= b[1] * a[2]
RGt(a, b) == RLt(b, a)
RGe(a, b) == RLe(b, a)
RMin(a, b) == IF RLe(a, b) THEN a ELSE b
\* f64::clamp(lo, hi)
RClamp(x, lo, hi) == IF RLt(x, lo) THEN lo ELSE IF RGt(x, hi) THEN hi ELSE x

(***************************************************************************)
(* Program constants (engine/ccm.rs)                                       *)
(***************************************************************************)
MAX_AGE == 120
FERTILITY_MIN_AGE == 15
FERTILITY_MAX_AGE == 49

\* the iteration order of `for gender in [Gender::Male, Gender::Female]`
Genders == <<"Male", "Female">>
Gender == {"Male", "Female"}

(***************************************************************************)
(* Cohort keys and HashMap helpers                                         *)
(***************************************************************************)
\* format!("{}:{}:{}", age, gender_str, region_id): the three fields of the
\* key, the gender written as "M" or "F"
cohort_key(age, gender, region_id) ==
    <<age, IF gender = "Male" THEN "M" ELSE "F", region_id>>

\* HashMap::get(k).copied().unwrap_or(dflt)
MapGet(m, k, dflt) == IF k \in DOMAIN m THEN m[k] ELSE dflt

\* *map.entry(k).or_insert(0.0) += x
MapAdd(m, k, x) ==
    IF k \in DOMAIN m THEN [m EXCEPT ![k] = RAdd(@, x)] ELSE m @@ (k :> x)

\* HashMap::insert(k, v): the most recent value wins
MapInsert(m, k, v) ==
    IF k \in DOMAIN m THEN [m EXCEPT ![k] = v] ELSE m @@ (k :> v)

EmptyMap == [k \in {} |-> Zero]

RECURSIVE SumOver(_, _)
SumOver(m, keys) ==
    IF keys = {} THEN Zero
    ELSE LET k == CHOOSE x \in keys : TRUE
         IN  RAdd(m[k], SumOver(m, keys \ {k}))

\* self.population.values().sum()
total_population(population) == SumOver(population, DOMAIN population)

\* CohortComponentModel::get_count
get_count(population, age, gender, region_id) ==
    MapGet(population, cohort_key(age, gender, region_id), Zero)

(***************************************************************************)
(* Rate tables                                                             *)
(***************************************************************************)
\* rates.iter().find(|r| r.age == age): the index of the first match, 0 if none
FindAge(rates, age) ==
    LET hits == {i \in 1..Len(rates) : rates[i].age = age}
    IN  IF hits = {} THEN 0 ELSE CHOOSE i \in hits : \A j \in hits : i <= j

\* a variant of MortalityTable::get_rate that lets the cohort of an undefined
\* age live
MortalityTable_get_rate_DefaultZero(table, age, gender) ==
    LET i == FindAge(table.rates, age)
    IN  IF i = 0 THEN Zero
        ELSE IF gender = "Male" THEN table.rates[i].male ELSE table.rates[i].female

\* MortalityTable::get_rate: 100% mortality for undefined ages
MortalityTable_get_rate(table, age, gender) ==
    LET i == FindAge(table.rates, age)
    IN  IF i = 0 THEN One
        ELSE IF gender = "Male" THEN table.rates[i].male ELSE table.rates[i].female

\* FertilityTable::get_rate: 0 for undefined ages
FertilityTable_get_rate(table, age) ==
    LET i == FindAge(table.rates, age)
    IN  IF i = 0 THEN Zero ELSE table.rates[i].rate

\* MigrationTable::get_rate: the net migrant count of (age, gender), 0 when the
\* age is not in the table
MigrationTable_get_rate(table, age, gender) ==
    LET i == FindAge(table.rates, age)
    IN  IF i = 0 THEN Zero
        ELSE IF gender = "Male" THEN table.rates[i].male ELSE table.rates[i].female

\* a variant of get_mortality_rate that lets the cohorts of a region without a
\* table live
get_mortality_rate_NoTableZero(self, age, gender, region_id) ==
    IF region_id \in DOMAIN self.mortality_tables
    THEN MortalityTable_get_rate(self.mortality_tables[region_id], age, gender)
    ELSE Zero

\* CohortComponentModel::get_mortality_rate: 1.0 when the region has no table
get_mortality_rate(self, age, gender, region_id) ==
    IF region_id \in DOMAIN self.mortality_tables
    THEN MortalityTable_get_rate(self.mortality_tables[region_id], age, gender)
    ELSE One

\* CohortComponentModel::get_fertility_rate: 0.0 when the region has no table
get_fertility_rate(self, age, region_id) ==
    IF region_id \in DOMAIN self.fertility_tables
    THEN FertilityTable_get_rate(self.fertility_tables[region_id], age)
    ELSE Zero

\* CohortComponentModel::get_sex_ratio_at_birth: 105 when the region has no table
get_sex_ratio_at_birth(self, region_id) ==
    IF region_id \in DOMAIN self.fertility_tables
    THEN self.fertility_tables[region_id].sex_ratio_at_birth
    ELSE Int2R(105)

\* CohortComponentModel::get_migration_rate: 0.0 when the region has no table
get_migration_rate(self, age, gender, region_id) ==
    IF region_id \in DOMAIN self.migration_tables
    THEN MigrationTable_get_rate(self.migration_tables[region_id], age, gender)
    ELSE Zero

(***************************************************************************)
(* CohortComponentModel::calculate_births                                  *)
(***************************************************************************)
\* a variant of the births loop that reads the male cohorts
FertileGender_Male == "Male"

\* the gender whose cohorts the births loop reads
FertileGender == "Female"

\* one iteration of `for age in FERTILITY_MIN_AGE..=FERTILITY_MAX_AGE`
BirthsOfAge(self, age, region_id) ==
    LET women == get_count(self.population, age, FertileGender, region_id)
    IN  IF RLe(women, Zero) THEN Zero
        ELSE RMul(women, get_fertility_rate(self, age, region_id))

\* the ages at which region_id has a stored cohort of the fertile gender; at
\* every other age the births loop reads women = 0 and adds nothing
WomenAges(self, region_id) ==
    {k[1] : k \in {x \in DOMAIN self.population :
                       x[3] = region_id /\ x = cohort_key(x[1], FertileGender, region_id)}}

\* the iterations lo..=hi of the births loop, summed
RECURSIVE SumBirths(_, _, _, _, _)
SumBirths(self, women_ages, lo, hi, region_id) ==
    IF \A a \in women_ages : a < lo \/ a > hi THEN Zero
    ELSE IF lo = hi THEN BirthsOfAge(self, lo, region_id)
    ELSE LET mid == (lo + hi) \div 2
         IN  RAdd(SumBirths(self, women_ages, lo, mid, region_id),
                  SumBirths(self, women_ages, mid + 1, hi, region_id))

\* male_proportion = sex_ratio / (sex_ratio + 100.0)
male_proportion(sex_ratio) == RDiv(sex_ratio, RAdd(sex_ratio, Hundred))

\* a variant of the female_births line that uses the male proportion again
female_share_Swapped(total_births, mp) == RMul(total_births, mp)

\* female_births = total_births * (1.0 - male_proportion)
female_share(total_births, mp) == RMul(total_births, RSub(One, mp))

\* returns (total_births, male_births, female_births)
calculate_births(self, region_id) ==
    LET total_births == SumBirths(self, WomenAges(self, region_id),
                              FERTILITY_MIN_AGE, FERTILITY_MAX_AGE, region_id)
        mp == male_proportion(get_sex_ratio_at_birth(self, region_id))
    IN  IF RLe(total_births, Zero)
        THEN [total |-> Zero, male |-> Zero, female |-> Zero]
        ELSE [total |-> total_births,
              male |-> RMul(total_births, mp),
              female |-> female_share(total_births, mp)]

(***************************************************************************)
(* CohortComponentModel::project_one_year                                  *)
(***************************************************************************)
\* a variant of the emigrants line without `.min(count)`
emigrants_Uncapped(migration, count) == RNeg(migration)

\* let emigrants = (-migration).min(count)
emigrants(migration, count) == RMin(RNeg(migration), count)

\* Step 2: the count after migration and the signed amount added to total_migration
apply_migration(count, migration) ==
    IF migration # Zero
    THEN IF RGt(migration, Zero)
         THEN [count |-> RAdd(count, migration), moved |-> migration]
         ELSE [count |-> RSub(count, emigrants(migration, count)),
               moved |-> RNeg(emigrants(migration, count))]
    ELSE [count |-> count, moved |-> Zero]

\* let mortality_rate = mortality_rate.clamp(0.0, 1.0)
clamp_mortality(rate) == RClamp(rate, Zero, One)

\* a variant of the new_age line without the open interval
new_age_NoOpenInterval(age) == age + 1

\* let new_age = if age >= MAX_AGE { MAX_AGE } else { age + 1 }
new_age(age) == IF age >= MAX_AGE THEN MAX_AGE ELSE age + 1

\* a variant of the loop body without its numeric guards: the rate is used as
\* the table gives it and the survivors are stored whatever their sign
ProcessCohort_Unguarded(self, acc, age, gender, region_id) ==
    LET key == cohort_key(age, gender, region_id)
        count0 == MapGet(self.population, key, Zero)
        mig == apply_migration(count0, get_migration_rate(self, age, gender, region_id))
        count == mig.count
        acc1 == [acc EXCEPT !.total_migration = RAdd(@, mig.moved)]
        deaths == RMul(count, get_mortality_rate(self, age, gender, region_id))
        survivors == RSub(count, deaths)
    IN  IF RLe(count, Zero) THEN acc1
        ELSE [acc1 EXCEPT !.total_deaths = RAdd(@, deaths),
                          !.new_population =
                              MapAdd(@, cohort_key(new_age(age), gender, region_id), survivors)]

\* a variant of the loop body that applies mortality to the stored count and
\* migration to the survivors
ProcessCohort_MortalityFirst(self, acc, age, gender, region_id) ==
    LET key == cohort_key(age, gender, region_id)
        count0 == MapGet(self.population, key, Zero)
        mortality_rate == clamp_mortality(get_mortality_rate(self, age, gender, region_id))
        deaths == RMul(count0, mortality_rate)
        mig == apply_migration(RSub(count0, deaths),
                               get_migration_rate(self, age, gender, region_id))
        survivors == mig.count
        acc1 == [acc EXCEPT !.total_migration = RAdd(@, mig.moved),
                            !.total_deaths = RAdd(@, deaths)]
    IN  IF RGt(survivors, Zero)
        THEN [acc1 EXCEPT !.new_population =
                  MapAdd(@, cohort_key(new_age(age), gender, region_id), survivors)]
        ELSE acc1

\* the body of the (age, gender) loop; acc carries new_population and the totals
ProcessCohort(self, acc, age, gender, region_id) ==
    LET key == cohort_key(age, gender, region_id)
        count0 == MapGet(self.population, key, Zero)
        mig == apply_migration(count0, get_migration_rate(self, age, gender, region_id))
        count == mig.count
        acc1 == [acc EXCEPT !.total_migration = RAdd(@, mig.moved)]
        mortality_rate == clamp_mortality(get_mortality_rate(self, age, gender, region_id))
        deaths == RMul(count, mortality_rate)
        survivors == RSub(count, deaths)
        acc2 == [acc1 EXCEPT !.total_deaths = RAdd(@, deaths)]
    IN  IF RLe(count, Zero) THEN acc1
        ELSE IF RGt(survivors, Zero)
             THEN [acc2 EXCEPT !.new_population =
                       MapAdd(@, cohort_key(new_age(age), gender, region_id), survivors)]
             ELSE acc2

\* for gender in [Gender::Male, Gender::Female]
ProcessGenders(self, acc, age, region_id) ==
    ProcessCohort(self, ProcessCohort(self, acc, age, Genders[1], region_id),
                  age, Genders[2], region_id)

EmptyAcc ==
    [new_population |-> EmptyMap, total_births |-> Zero,
     total_deaths |-> Zero, total_migration |-> Zero]

\* two runs of `+=` on the same accumulators, applied one after the other:
\* over exact arithmetic the sums do not depend on the order of the additions
MergeAcc(a, b) ==
    [new_population |->
         [k \in DOMAIN a.new_population \cup DOMAIN b.new_population |->
             IF k \notin DOMAIN b.new_population THEN a.new_population[k]
             ELSE IF k \notin DOMAIN a.new_population THEN b.new_population[k]
             ELSE RAdd(a.new_population[k], b.new_population[k])],
     total_births |-> RAdd(a.total_births, b.total_births),
     total_deaths |-> RAdd(a.total_deaths, b.total_deaths),
     total_migration |-> RAdd(a.total_migration, b.total_migration)]

\* the ages at which region_id has a stored cohort or a migration entry; at
\* every other age the loop body reads count 0 and migration 0, and leaves at the
\* `continue` of `if count <= 0.0` with every accumulator unchanged
TouchedAges(self, region_id) ==
    {k[1] : k \in {x \in DOMAIN self.population : x[3] = region_id}}
    \cup (IF region_id \in DOMAIN self.migration_tables
          THEN {self.migration_tables[region_id].rates[i].age :
                    i \in 1..Len(self.migration_tables[region_id].rates)}
          ELSE {})

\* the iterations lo..=hi of `for age in 0..=MAX_AGE`, as what they add
RECURSIVE ProcessAgeRange(_, _, _, _, _)
ProcessAgeRange(self, touched, lo, hi, region_id) ==
    IF \A a \in touched : a < lo \/ a > hi THEN EmptyAcc
    ELSE IF lo = hi THEN ProcessGenders(self, EmptyAcc, lo, region_id)
    ELSE LET mid == (lo + hi) \div 2
         IN  MergeAcc(ProcessAgeRange(self, touched, lo, mid, region_id),
                      ProcessAgeRange(self, touched, mid + 1, hi, region_id))

\* a variant of the age loop that runs one age past MAX_AGE
ProcessAges_PastMaxAge(self, acc, region_id) ==
    MergeAcc(acc, ProcessAgeRange(self, TouchedAges(self, region_id), 0, MAX_AGE + 1,
                                  region_id))

\* for age in 0..=MAX_AGE
ProcessAges(self, acc, region_id) ==
    MergeAcc(acc, ProcessAgeRange(self, TouchedAges(self, region_id), 0, MAX_AGE, region_id))

\* a variant that sends the newborns through the year's age-0 mortality
AddNewborns_ThroughMortality(self, acc, region_id) ==
    LET b == calculate_births(self, region_id)
        m == RSub(b.male, RMul(b.male,
                 clamp_mortality(get_mortality_rate(self, 0, "Male", region_id))))
        f == RSub(b.female, RMul(b.female,
                 clamp_mortality(get_mortality_rate(self, 0, "Female", region_id))))
        p0 == acc.new_population
        p1 == IF RGt(m, Zero) THEN MapAdd(p0, cohort_key(0, "Male", region_id), m) ELSE p0
        p2 == IF RGt(f, Zero) THEN MapAdd(p1, cohort_key(0, "Female", region_id), f) ELSE p1
    IN  [acc EXCEPT !.total_births = RAdd(@, b.total), !.new_population = p2]

\* a variant of the births step in which a region's births replace the total
AddNewborns_Assign(self, acc, region_id) ==
    LET b == calculate_births(self, region_id)
        p0 == acc.new_population
        p1 == IF RGt(b.male, Zero)
              THEN MapAdd(p0, cohort_key(0, "Male", region_id), b.male) ELSE p0
        p2 == IF RGt(b.female, Zero)
              THEN MapAdd(p1, cohort_key(0, "Female", region_id), b.female) ELSE p1
    IN  [acc EXCEPT !.total_births = b.total, !.new_population = p2]

\* Step 1 and "add newborns at age 0": births are read from self.population,
\* which the loop never writes, and are put into new_population
AddNewborns(self, acc, region_id) ==
    LET b == calculate_births(self, region_id)
        p0 == acc.new_population
        p1 == IF RGt(b.male, Zero)
              THEN MapAdd(p0, cohort_key(0, "Male", region_id), b.male) ELSE p0
        p2 == IF RGt(b.female, Zero)
              THEN MapAdd(p1, cohort_key(0, "Female", region_id), b.female) ELSE p1
    IN  [acc EXCEPT !.total_births = RAdd(@, b.total), !.new_population = p2]

\* one iteration of `for region_id in regions`
ProcessRegion(self, acc, region_id) ==
    ProcessAges(self, AddNewborns(self, acc, region_id), region_id)

RECURSIVE ProcessRegions(_, _, _)
ProcessRegions(self, acc, regions) ==
    IF regions = <<>> THEN acc
    ELSE ProcessRegions(self, ProcessRegion(self, acc, Head(regions)), Tail(regions))

\* the growth rate with 0.0 for every start from nothing
growth_rate_ZeroBase(initial_population, final_population) ==
    IF RGt(initial_population, Zero)
    THEN RMul(RDiv(RSub(final_population, initial_population), initial_population), Hundred)
    ELSE Zero

\* growth rate relative to the pre-step total
growth_rate(initial_population, final_population) ==
    IF RGt(initial_population, Zero)
    THEN RMul(RDiv(RSub(final_population, initial_population), initial_population), Hundred)
    ELSE IF RGt(final_population, Zero) THEN Hundred ELSE Zero

\* self.population = new_population and the returned ProjectionYear
year_summary(year, initial_population, acc, final_population) ==
    [population |-> acc.new_population,
     result |-> [year |-> year,
                 total_population |-> final_population,
                 births |-> acc.total_births,
                 deaths |-> acc.total_deaths,
                 net_migration |-> acc.total_migration,
                 natural_change |-> RSub(acc.total_births, acc.total_deaths),
                 growth_rate |-> growth_rate(initial_population, final_population)]]

finish_year(year, initial_population, acc) ==
    year_summary(year, initial_population, acc, total_population(acc.new_population))

\* the whole step: the new population map and the returned ProjectionYear
project_one_year(self, year, regions) ==
    finish_year(year, total_population(self.population),
                ProcessRegions(self, EmptyAcc, regions))

(***************************************************************************)
(* CohortComponentModel::load_population and the table loaders             *)
(***************************************************************************)
RECURSIVE InsertCohorts(_, _)
InsertCohorts(m, cohorts) ==
    IF cohorts = <<>> THEN m
    ELSE InsertCohorts(
             MapAdd(m, cohort_key(Head(cohorts).age, Head(cohorts).gender,
                                  Head(cohorts).region_id), Head(cohorts).count),
             Tail(cohorts))

\* HashMap::clear left out: the entries stay
clear_Keep(m) == m

\* HashMap::clear
clear(m) == EmptyMap

\* self.population.clear(); then every cohort is added under its key
load_population(self_population, cohorts) == InsertCohorts(clear(self_population), cohorts)

\* the key read back: "M" and "F" are the genders, the rest is kept
parse_cohort_key(key) == <<key[1], IF key[2] = "M" THEN "Male" ELSE "Female", key[3]>>

\* CohortComponentModel::get_cohorts: one Cohort per stored entry
get_cohorts(self_population) ==
    { [age |-> parse_cohort_key(k)[1], gender |-> parse_cohort_key(k)[2],
       region_id |-> parse_cohort_key(k)[3], count |-> self_population[k]] :
          k \in DOMAIN self_population }

\* self.<kind>_tables.insert(table.region_id.clone(), table)
load_table(tables, table) == MapInsert(tables, table.region_id, table)

(***************************************************************************)
(* Inputs                                                                  *)
(***************************************************************************)
\* the number of cohorts of one load_population call
MaxCohorts == 2
\* the number of project_one_year calls after one load_population
MaxSteps == 2

\* lists of pairwise distinct region ids, as a scenario names its regions
RegionLists == {<<"A">>, <<"B">>, <<"A", "B">>, <<"B", "A">>}
YearSamples == {2024}

Half == Rat(1, 2)
ThreeHalves == Rat(3, 2)

Cohort(age, gender, region_id, count) ==
    [age |-> age, gender |-> gender, region_id |-> region_id, count |-> count]

\* cohorts on both sides of the fertile range and of the open interval, and one
\* of count 0; 121 is
\* an age above MAX_AGE, which Cohort.age (u32) admits; region "B" never gets a
\* table, so that its cohorts meet every lookup default
CohortPool ==
    << Cohort(0, "Female", "A", Int2R(2)), Cohort(15, "Female", "A", Int2R(2)),
       Cohort(49, "Female", "A", Int2R(2)), Cohort(50, "Female", "A", Int2R(2)),
       Cohort(15, "Male", "A", Int2R(2)), Cohort(119, "Male", "A", Int2R(2)),
       Cohort(120, "Male", "A", Int2R(2)), Cohort(121, "Male", "A", Int2R(2)),
       Cohort(15, "Female", "B", Int2R(1)), Cohort(15, "Male", "B", Zero) >>

\* the cohort lists of at most MaxCohorts entries, one list per multiset: the
\* map load_population builds does not depend on the order of the list
CohortLists ==
    LET ix == UNION {[1..k -> 1..Len(CohortPool)] : k \in 0..MaxCohorts}
    IN  {[i \in 1..Len(x) |-> CohortPool[x[i]]] :
             x \in {y \in ix : \A i \in 1..(Len(y) - 1) : y[i] <= y[i + 1]}}

\* a table with one entry per age 0..=120 (the fixtures of ccm_tests.rs)
FlatMortality(region_id, m, f) ==
    [region_id |-> region_id, year |-> 2024,
     rates |-> [i \in 1..(MAX_AGE + 1) |-> [age |-> i - 1, male |-> m, female |-> f]]]

\* a table that has entries for a few ages only, some of them outside [0, 1]
SparseMortality(region_id) ==
    [region_id |-> region_id, year |-> 2024,
     rates |-> << [age |-> 0, male |-> ThreeHalves, female |-> Half],
                  [age |-> 15, male |-> ThreeHalves, female |-> Half],
                  [age |-> 49, male |-> Zero, female |-> RNeg(Half)],
                  [age |-> 120, male |-> Half, female |-> ThreeHalves] >>]

MortalityTables ==
    {FlatMortality("A", Zero, Zero), FlatMortality("A", One, One), SparseMortality("A")}

FlatFertility(region_id, rate, sex_ratio) ==
    [region_id |-> region_id, year |-> 2024,
     rates |-> [i \in 1..(MAX_AGE + 1) |-> [age |-> i - 1, rate |-> rate]],
     sex_ratio_at_birth |-> sex_ratio]

SparseFertility(region_id, sex_ratio) ==
    [region_id |-> region_id, year |-> 2024,
     rates |-> << [age |-> 15, rate |-> Half], [age |-> 50, rate |-> One] >>,
     sex_ratio_at_birth |-> sex_ratio]

\* a table whose only rate lies above 1
ExcessFertility(region_id, sex_ratio) ==
    [region_id |-> region_id, year |-> 2024,
     rates |-> << [age |-> 15, rate |-> ThreeHalves] >>,
     sex_ratio_at_birth |-> sex_ratio]

FertilityTables ==
    {FlatFertility("A", Half, Int2R(100)), SparseFertility("A", Int2R(105)),
     ExcessFertility("A", Int2R(100))}

MigrationTables ==
    { [region_id |-> "A", year |-> 2024,
       rates |-> << [age |-> 0, male |-> Int2R(1), female |-> Int2R(-1)],
                    [age |-> 15, male |-> Int2R(-3), female |-> Int2R(-1)],
                    [age |-> 120, male |-> Int2R(-3), female |-> Int2R(1)] >>] }

(***************************************************************************)
(* State                                                                   *)
(***************************************************************************)
VARIABLES population, mortality_tables, fertility_tables, migration_tables,
          steps, last,
          request, pc, loop_year, results, population_snapshots, response, trail,
          engine_population, engine_mortality_tables, engine_fertility_tables, shocks,
          scenario, engine_pc, engine_year, years, progress, projection_result,
          engine_trail, accepted, publish_result, runs,
          call, ret,
          store, store_last

\* what run_projection of the projection handler holds while it serves a request
handler_vars == <<request, pc, loop_year, results, population_snapshots, response, trail>>

\* the CohortComponentModel and the record of its latest step
ccm_vars == <<population, mortality_tables, fertility_tables, migration_tables, steps, last>>

\* a DemographicEngine (engine/projection.rs) and what its run_projection holds
engine_vars == <<engine_population, engine_mortality_tables, engine_fertility_tables, shocks,
                 scenario, engine_pc, engine_year, years, progress, projection_result,
                 engine_trail, accepted, publish_result, runs>>

\* the latest call of a function that reads no state, and what it returned
call_vars == <<call, ret>>

\* the map of a MemoryPopulationStore and the record of its latest operation
store_vars == <<store, store_last>>

vars == <<population, mortality_tables, fertility_tables, migration_tables, steps, last,
          request, pc, loop_year, results, population_snapshots, response, trail,
          engine_population, engine_mortality_tables, engine_fertility_tables, shocks,
          scenario, engine_pc, engine_year, years, progress, projection_result,
          engine_trail, accepted, publish_result, runs, call, ret, store, store_last>>

\* the model as the methods see it
Self ==
    [population |-> population, mortality_tables |-> mortality_tables,
     fertility_tables |-> fertility_tables, migration_tables |-> migration_tables]

EmptySelf ==
    [population |-> EmptyMap, mortality_tables |-> EmptyMap,
     fertility_tables |-> EmptyMap, migration_tables |-> EmptyMap]

NoResult ==
    [year |-> 0, total_population |-> Zero, births |-> Zero, deaths |-> Zero,
     net_migration |-> Zero, natural_change |-> Zero, growth_rate |-> Zero]

\* the most recent call: its name, its arguments, the model before it and what it returned
NoCall == [op |-> "new", year |-> 0, regions |-> <<>>, before |-> EmptySelf, result |-> NoResult]

\* no request received yet
NoRequest ==
    [base_year |-> 0, end_year |-> 0, sex_ratio_at_birth |-> Zero, population |-> <<>>,
     mortality |-> <<>>, fertility |-> <<>>, migration |-> [some |-> FALSE, rows |-> <<>>]]

NoResponse ==
    [success |-> FALSE, years |-> <<>>, error |-> "", years_projected |-> 0,
     population_by_year |-> <<>>]

NoScenario == [base_year |-> 0, end_year |-> 0, regions |-> <<>>, shocks |-> <<>>]

NoProjectionResult == [base_year |-> 0, end_year |-> 0, years |-> <<>>]

NoProbe == [op |-> "none"]

\* the tasks handle_scenario_submit has spawned side by side
RunIds == {1, 2}

\* a task that has not been spawned
NoRun ==
    [pc |-> "idle", scenario |-> NoScenario, year |-> 0, years |-> <<>>,
     engine |-> [population |-> EmptyMap, mortality_tables |-> EmptyMap,
                 fertility_tables |-> EmptyMap, shocks |-> <<>>],
     first |-> [population |-> EmptyMap, mortality_tables |-> EmptyMap,
                fertility_tables |-> EmptyMap, shocks |-> <<>>]]

\* CohortComponentModel::new(), DemographicEngine::new(), no request received
Init ==
    /\ population = EmptyMap
    /\ mortality_tables = EmptyMap
    /\ fertility_tables = EmptyMap
    /\ migration_tables = EmptyMap
    /\ steps = 0
    /\ last = NoCall
    /\ request = NoRequest
    /\ pc = "idle"
    /\ loop_year = 0
    /\ results = <<>>
    /\ population_snapshots = <<>>
    /\ response = NoResponse
    /\ trail = <<>>
    /\ engine_population = EmptyMap
    /\ engine_mortality_tables = EmptyMap
    /\ engine_fertility_tables = EmptyMap
    /\ shocks = <<>>
    /\ scenario = NoScenario
    /\ engine_pc = "idle"
    /\ engine_year = 0
    /\ years = <<>>
    /\ progress = <<>>
    /\ projection_result = NoProjectionResult
    /\ engine_trail = <<>>
    /\ accepted = <<>>
    /\ publish_result = "none"
    /\ runs = [i \in RunIds |-> NoRun]
    /\ call = NoProbe
    /\ ret = NoProbe
    /\ store = <<>>
    /\ store_last = [op |-> "none"]

\* the population and the tables are loaded before the first step of a run and
\* are not changed during it
LoadPopulation ==
    /\ steps = 0
    /\ \E cohorts \in CohortLists :
        /\ population' = load_population(population, cohorts)
        /\ last' = NoCall
        /\ UNCHANGED <<mortality_tables, fertility_tables, migration_tables, steps>>
        /\ UNCHANGED <<handler_vars, engine_vars, call_vars, store_vars>>

LoadMortalityTable ==
    /\ steps = 0
    /\ \E table \in MortalityTables :
        /\ mortality_tables' = load_table(mortality_tables, table)
        /\ last' = NoCall
        /\ UNCHANGED <<population, fertility_tables, migration_tables, steps>>
        /\ UNCHANGED <<handler_vars, engine_vars, call_vars, store_vars>>

LoadFertilityTable ==
    /\ steps = 0
    /\ \E table \in FertilityTables :
        /\ fertility_tables' = load_table(fertility_tables, table)
        /\ last' = NoCall
        /\ UNCHANGED <<population, mortality_tables, migration_tables, steps>>
        /\ UNCHANGED <<handler_vars, engine_vars, call_vars, store_vars>>

LoadMigrationTable ==
    /\ steps = 0
    /\ \E table \in MigrationTables :
        /\ migration_tables' = load_table(migration_tables, table)
        /\ last' = NoCall
        /\ UNCHANGED <<population, mortality_tables, fertility_tables, steps>>
        /\ UNCHANGED <<handler_vars, engine_vars, call_vars, store_vars>>

ProjectOneYear ==
    /\ steps < MaxSteps
    /\ \E year \in YearSamples, regions \in RegionLists :
        /\ steps > 0 => regions = last.regions
        /\ \E out \in {project_one_year(Self, year, regions)} :
               /\ population' = out.population
               /\ last' = [op |-> "project_one_year", year |-> year, regions |-> regions,
                           before |-> Self, result |-> out.result]
               /\ steps' = steps + 1
               /\ UNCHANGED <<mortality_tables, fertility_tables, migration_tables>>
               /\ UNCHANGED <<handler_vars, engine_vars, call_vars, store_vars>>

Next ==
    \/ LoadPopulation
    \/ LoadMortalityTable
    \/ LoadFertilityTable
    \/ LoadMigrationTable
    \/ ProjectOneYear

Spec == Init /\ [][Next]_vars

(***************************************************************************)
(* handlers/projection_handler.rs: run_projection(request)                 *)
(***************************************************************************)
\* the longest year range of a request: end_year - base_year
MaxSpan == 4

BaseYears == {2024}
\* end years before, at and after the base year
EndYears == 2023..(2024 + MaxSpan)

\* let region_id = "DEFAULT"
HandlerRegion == "DEFAULT"

\* f64::round followed by `as i64`: to the nearest integer, halves away from zero
round(x) ==
    IF x[1] >= 0 THEN (2 * x[1] + x[2]) \div (2 * x[2])
    ELSE -((2 * (-x[1]) + x[2]) \div (2 * x[2]))

\* the early returns of run_projection without the check of the years
validation_error_NoYearCheck(req) ==
    IF req.population = <<>> THEN "Population data is required"
    ELSE IF req.mortality = <<>> THEN "Mortality data is required"
    ELSE IF req.fertility = <<>> THEN "Fertility data is required"
    ELSE ""

\* the early returns of run_projection: the error, "" when the request passes
validation_error(req) ==
    IF req.population = <<>> THEN "Population data is required"
    ELSE IF req.mortality = <<>> THEN "Mortality data is required"
    ELSE IF req.fertility = <<>> THEN "Fertility data is required"
    ELSE IF req.base_year >= req.end_year THEN "End year must be greater than base year"
    ELSE ""

\* every population row becomes a male and a female cohort of the region
RECURSIVE row_cohorts(_)
row_cohorts(rows) ==
    IF rows = <<>> THEN <<>>
    ELSE << Cohort(Head(rows).age, "Male", HandlerRegion, Head(rows).male),
            Cohort(Head(rows).age, "Female", HandlerRegion, Head(rows).female) >>
         \o row_cohorts(Tail(rows))

\* the tables the handler loads, all of them for the one region and the base year
request_mortality_table(req) ==
    [region_id |-> HandlerRegion, year |-> req.base_year, rates |-> req.mortality]

request_fertility_table(req) ==
    [region_id |-> HandlerRegion, year |-> req.base_year, rates |-> req.fertility,
     sex_ratio_at_birth |-> req.sex_ratio_at_birth]

\* a migration table is loaded only for Some(rows) with rows not empty
request_migration_tables(req) ==
    IF req.migration.some /\ req.migration.rows # <<>>
    THEN load_table(EmptyMap,
                    [region_id |-> HandlerRegion, year |-> req.base_year,
                     rates |-> req.migration.rows])
    ELSE EmptyMap

\* the sum of the rounded counts of one gender at one age
RECURSIVE rounded_sum(_, _)
rounded_sum(pop, keys) ==
    IF keys = {} THEN 0
    ELSE LET k == CHOOSE x \in keys : TRUE
         IN  round(pop[k]) + rounded_sum(pop, keys \ {k})

\* capture_population_snapshot: the rounded counts by age and their totals
capture_population_snapshot(pop, year) ==
    LET ages == {k[1] : k \in DOMAIN pop}
        male == rounded_sum(pop, {k \in DOMAIN pop : k[2] = "M"})
        female == rounded_sum(pop, {k \in DOMAIN pop : k[2] = "F"})
    IN  [year |-> year,
         cohorts |-> [a \in ages |->
                        [male |-> rounded_sum(pop, {k \in DOMAIN pop : k[1] = a /\ k[2] = "M"}),
                         female |-> rounded_sum(pop, {k \in DOMAIN pop : k[1] = a /\ k[2] = "F"})]],
         total_male |-> male, total_female |-> female, total |-> male + female]

\* the ProjectionYearResult pushed for a year: the step's summary, rounded
year_result(year, r) ==
    [year |-> year,
     total_population |-> round(r.total_population),
     births |-> round(r.births),
     deaths |-> round(r.deaths),
     net_migration |-> round(r.net_migration),
     natural_change |-> round(r.natural_change),
     growth_rate |-> r.growth_rate]

\* for year in request.base_year..=request.end_year
in_year_range(year, base_year, end_year) == base_year <= year /\ year <= end_year

PopulationRow(age, male, female) == [age |-> age, male |-> male, female |-> female]

PopulationRowLists ==
    { <<>>,
      << PopulationRow(15, Zero, Zero) >>,
      << PopulationRow(15, Int2R(2), Int2R(2)) >>,
      << PopulationRow(15, ThreeHalves, Int2R(2)), PopulationRow(120, One, One) >>,
      << PopulationRow(15, Int2R(2), Int2R(2)), PopulationRow(121, One, Zero) >> }

MortalityRowLists ==
    { <<>>,
      FlatMortality(HandlerRegion, Zero, Zero).rates,
      << [age |-> 15, male |-> Half, female |-> Zero] >> }

FertilityRowLists ==
    { <<>>, << [age |-> 15, rate |-> Half] >>, << [age |-> 16, rate |-> One] >> }

\* Option<Vec<MigrationRow>>: None, Some of no rows, Some of rows
MigrationOptions ==
    { [some |-> FALSE, rows |-> <<>>],
      [some |-> TRUE, rows |-> <<>>],
      [some |-> TRUE, rows |-> << [age |-> 15, male |-> One, female |-> RNeg(One)] >>] }

Requests ==
    { [base_year |-> b, end_year |-> e, sex_ratio_at_birth |-> Int2R(105),
       population |-> p, mortality |-> m, fertility |-> f, migration |-> g] :
        b \in BaseYears, e \in EndYears,
        p \in PopulationRowLists, m \in MortalityRowLists, f \in FertilityRowLists,
        g \in MigrationOptions }

\* a request arrives and fails validation: the Err reply, nothing is computed.
\* The handler and a DemographicEngine run share no state, so their runs are
\* explored one at a time: a run starts while the other side is idle.
RejectRequest ==
    /\ pc = "idle"
    /\ engine_pc = "idle"
    /\ \E req \in Requests :
        /\ validation_error(req) # ""
        /\ request' = req
        /\ response' = [NoResponse EXCEPT !.error = validation_error(req)]
        /\ pc' = "replied"
        /\ loop_year' = 0
        /\ results' = <<>>
        /\ population_snapshots' = <<>>
        /\ trail' = <<>>
        /\ population' = EmptyMap
        /\ mortality_tables' = EmptyMap
        /\ fertility_tables' = EmptyMap
        /\ migration_tables' = EmptyMap
        /\ last' = NoCall
        /\ UNCHANGED <<steps, engine_vars, call_vars, store_vars>>

\* a request arrives and passes validation: a fresh model is loaded from it and
\* the snapshot of the base year is taken
StartRun ==
    /\ pc = "idle"
    /\ engine_pc = "idle"
    /\ \E req \in Requests :
        /\ validation_error(req) = ""
        /\ request' = req
        /\ population' = load_population(EmptyMap, row_cohorts(req.population))
        /\ mortality_tables' = load_table(EmptyMap, request_mortality_table(req))
        /\ fertility_tables' = load_table(EmptyMap, request_fertility_table(req))
        /\ migration_tables' = request_migration_tables(req)
        /\ results' = <<>>
        /\ population_snapshots' =
               << capture_population_snapshot(load_population(EmptyMap, row_cohorts(req.population)),
                                              req.base_year) >>
        /\ trail' = << load_population(EmptyMap, row_cohorts(req.population)) >>
        /\ loop_year' = req.base_year
        /\ response' = NoResponse
        /\ pc' = "loop"
        /\ last' = NoCall
        /\ UNCHANGED <<steps, engine_vars, call_vars, store_vars>>

\* one pass of the loop: the step of the year, its result and its snapshot
RunYear ==
    /\ pc = "loop"
    /\ in_year_range(loop_year, request.base_year, request.end_year)
    /\ \E out \in {project_one_year(Self, loop_year, <<HandlerRegion>>)} :
           /\ population' = out.population
           /\ results' = Append(results, year_result(loop_year, out.result))
           /\ population_snapshots' =
                  Append(population_snapshots,
                         capture_population_snapshot(out.population, loop_year + 1))
           /\ trail' = Append(trail, out.population)
           /\ last' = [op |-> "project_one_year", year |-> loop_year,
                       regions |-> <<HandlerRegion>>, before |-> Self, result |-> out.result]
    /\ loop_year' = loop_year + 1
    /\ UNCHANGED <<mortality_tables, fertility_tables, migration_tables, steps,
                   request, pc, response, engine_vars, call_vars, store_vars>>

\* the loop is over: the Ok reply
FinishRun ==
    /\ pc = "loop"
    /\ ~in_year_range(loop_year, request.base_year, request.end_year)
    /\ response' = [success |-> TRUE, years |-> results, error |-> "",
                    years_projected |-> request.end_year - request.base_year + 1,
                    population_by_year |-> population_snapshots]
    /\ pc' = "replied"
    /\ UNCHANGED <<population, mortality_tables, fertility_tables, migration_tables,
                   steps, last, request, loop_year, results, population_snapshots, trail,
                   engine_vars, call_vars, store_vars>>

\* the reply is published and the handler waits for the next request; the
\* model and the locals of the finished call are dropped
AwaitRequest ==
    /\ pc = "replied"
    /\ pc' = "idle"
    /\ request' = NoRequest
    /\ response' = NoResponse
    /\ loop_year' = 0
    /\ results' = <<>>
    /\ population_snapshots' = <<>>
    /\ trail' = <<>>
    /\ population' = EmptyMap
    /\ mortality_tables' = EmptyMap
    /\ fertility_tables' = EmptyMap
    /\ migration_tables' = EmptyMap
    /\ last' = NoCall
    /\ UNCHANGED <<steps, engine_vars, call_vars, store_vars>>

NextHandler ==
    \/ RejectRequest
    \/ StartRun
    \/ RunYear
    \/ FinishRun
    \/ AwaitRequest

(***************************************************************************)
(* engine/projection.rs: DemographicEngine                                 *)
(***************************************************************************)
\* format!("{}-{}-{}", age, gender_str, region_id): the three fields of the
\* key, the gender written as "male" or "female"
engine_cohort_key(age, gender, region_id) ==
    <<age, IF gender = "Male" THEN "male" ELSE "female", region_id>>

\* self.population.clear(); every cohort is inserted, the last of a key wins
RECURSIVE engine_insert_cohorts(_, _)
engine_insert_cohorts(m, cohorts) ==
    IF cohorts = <<>> THEN m
    ELSE engine_insert_cohorts(
             MapInsert(m, engine_cohort_key(Head(cohorts).age, Head(cohorts).gender,
                                            Head(cohorts).region_id), Head(cohorts).count),
             Tail(cohorts))

engine_load_population(cohorts) == engine_insert_cohorts(EmptyMap, cohorts)

\* for table in tables { self.load_..._table(table) }
RECURSIVE load_tables(_, _)
load_tables(tables, list) ==
    IF list = <<>> THEN tables
    ELSE load_tables(load_table(tables, Head(list)), Tail(list))

\* AgeGroup::contains
AgeGroup_contains(group, age) == age >= group.min /\ age <= group.max

\* Vec::contains
Contains(list, x) == \E i \in 1..Len(list) : list[i] = x

\* Shock::applies_to; empty targets and a missing age group mean "all"
Shock_applies_to(shock, year, region_id, gender, age) ==
    /\ ~(year < shock.start_year \/ year > shock.end_year)
    /\ ~(shock.target_regions # <<>> /\ ~Contains(shock.target_regions, region_id))
    /\ ~(shock.target_genders # <<>> /\ ~Contains(shock.target_genders, gender))
    /\ ~(shock.target_ages.some /\ ~AgeGroup_contains(shock.target_ages, age))

\* apply_shocks clamping inside the loop instead of after it
RECURSIVE shocked_value_ClampEach(_, _, _, _, _, _, _)
shocked_value_ClampEach(list, shock_type, value, year, age, gender, region_id) ==
    IF list = <<>> THEN value
    ELSE shocked_value_ClampEach(
             Tail(list), shock_type,
             IF Head(list).shock_type = shock_type
                /\ Shock_applies_to(Head(list), year, region_id, gender, age)
             THEN RClamp(RMul(value, Head(list).modifier), Zero, One) ELSE value,
             year, age, gender, region_id)

\* the loop of apply_shocks: the modifiers of the matching shocks, multiplied in
RECURSIVE shocked_value(_, _, _, _, _, _, _)
shocked_value(list, shock_type, value, year, age, gender, region_id) ==
    IF list = <<>> THEN value
    ELSE shocked_value(
             Tail(list), shock_type,
             IF Head(list).shock_type = shock_type
                /\ Shock_applies_to(Head(list), year, region_id, gender, age)
             THEN RMul(value, Head(list).modifier) ELSE value,
             year, age, gender, region_id)

\* DemographicEngine::apply_shocks: value.max(0.0).min(1.0) at the end
apply_shocks(self, shock_type, base_value, year, age, gender, region_id) ==
    RClamp(shocked_value(self.shocks, shock_type, base_value, year, age, gender, region_id),
           Zero, One)

\* if count < 0.001 { continue }
Thousandth == Rat(1, 1000)

\* deaths and survivors of a cohort; the survivors of age 120 are not stored
engine_after_mortality(acc, count, mortality_rate, age, gender, region_id) ==
    [new_population |->
         IF age < 120
         THEN MapAdd(acc.new_population, engine_cohort_key(age + 1, gender, region_id),
                     RSub(count, RMul(count, mortality_rate)))
         ELSE acc.new_population,
     total_births |-> acc.total_births,
     total_deaths |-> RAdd(acc.total_deaths, RMul(count, mortality_rate)),
     total_migration |-> acc.total_migration]

\* the births of a female cohort of reproductive age, split by the sex ratio
engine_after_births(acc, births, male_ratio, region_id) ==
    [new_population |->
         MapAdd(MapAdd(acc.new_population, engine_cohort_key(0, "Male", region_id),
                       RMul(births, male_ratio)),
                engine_cohort_key(0, "Female", region_id),
                RMul(births, RSub(One, male_ratio))),
     total_births |-> RAdd(acc.total_births, births),
     total_deaths |-> acc.total_deaths,
     total_migration |-> acc.total_migration]

\* the body of the (age, gender) loop of project_year
engine_cohort(self, acc, count, year, age, gender, region_id) ==
    IF RLt(count, Thousandth) THEN acc
    ELSE IF gender = "Female" /\ age >= 15 /\ age <= 49
    THEN engine_after_births(
             engine_after_mortality(
                 acc, count,
                 apply_shocks(self, "Mortality",
                              MortalityTable_get_rate(self.mortality_tables[region_id],
                                                      age, gender),
                              year, age, gender, region_id),
                 age, gender, region_id),
             RMul(count,
                  apply_shocks(self, "Fertility",
                               FertilityTable_get_rate(self.fertility_tables[region_id], age),
                               year, age, gender, region_id)),
             RDiv(self.fertility_tables[region_id].sex_ratio_at_birth,
                  RAdd(Hundred, self.fertility_tables[region_id].sex_ratio_at_birth)),
             region_id)
    ELSE engine_after_mortality(
             acc, count,
             apply_shocks(self, "Mortality",
                          MortalityTable_get_rate(self.mortality_tables[region_id],
                                                  age, gender),
                          year, age, gender, region_id),
             age, gender, region_id)

\* for gender in [Gender::Male, Gender::Female]
engine_genders(self, acc, year, age, region_id) ==
    engine_cohort(
        self,
        engine_cohort(self, acc,
                      MapGet(self.population, engine_cohort_key(age, Genders[1], region_id), Zero),
                      year, age, Genders[1], region_id),
        MapGet(self.population, engine_cohort_key(age, Genders[2], region_id), Zero),
        year, age, Genders[2], region_id)

\* the iterations lo..=hi of `for age in 0..=120`, as what they add; at an age
\* without a stored cohort of the region the body leaves at its `continue`
RECURSIVE engine_age_range(_, _, _, _, _, _)
engine_age_range(self, stored, year, lo, hi, region_id) ==
    IF \A a \in stored : a < lo \/ a > hi THEN EmptyAcc
    ELSE IF lo = hi THEN engine_genders(self, EmptyAcc, year, lo, region_id)
    ELSE MergeAcc(engine_age_range(self, stored, year, lo, (lo + hi) \div 2, region_id),
                  engine_age_range(self, stored, year, (lo + hi) \div 2 + 1, hi, region_id))

\* one iteration of `for region_id in region_ids`: a region without a mortality
\* table or without a fertility table is skipped
engine_region(self, acc, year, region_id) ==
    IF region_id \notin DOMAIN self.mortality_tables THEN acc
    ELSE IF region_id \notin DOMAIN self.fertility_tables THEN acc
    ELSE MergeAcc(acc,
                  engine_age_range(
                      self, {k[1] : k \in {x \in DOMAIN self.population : x[3] = region_id}},
                      year, 0, 120, region_id))

RECURSIVE engine_regions(_, _, _, _)
engine_regions(self, acc, year, region_ids) ==
    IF region_ids = <<>> THEN acc
    ELSE engine_regions(self, engine_region(self, acc, year, Head(region_ids)),
                        year, Tail(region_ids))

\* self.population = new_population and the returned ProjectionYear
engine_year_summary(year, prev_total, acc, new_total) ==
    [population |-> acc.new_population,
     result |-> [year |-> year,
                 total_population |-> new_total,
                 births |-> acc.total_births,
                 deaths |-> acc.total_deaths,
                 net_migration |-> Zero,
                 natural_change |-> RSub(acc.total_births, acc.total_deaths),
                 growth_rate |->
                     IF RGt(prev_total, Zero)
                     THEN RMul(RDiv(RSub(new_total, prev_total), prev_total), Hundred)
                     ELSE Zero]]

engine_finish_year(year, prev_total, acc) ==
    engine_year_summary(year, prev_total, acc, total_population(acc.new_population))

\* DemographicEngine::project_year
project_year(self, year, region_ids) ==
    engine_finish_year(year, total_population(self.population),
                       engine_regions(self, EmptyAcc, year, region_ids))

\* the DemographicEngine as its methods see it
EngineSelf ==
    [population |-> engine_population, mortality_tables |-> engine_mortality_tables,
     fertility_tables |-> engine_fertility_tables, shocks |-> shocks]

\* 0.0 / 0.0, the percentage of a scenario of one year
NaN == <<0, 0>>

\* a ProjectionProgress that counts the year from the base year
progress_of_RelativeYear(year, base_year, total_years) ==
    [current_year |-> year - base_year, total_years |-> total_years,
     percent_complete |-> IF total_years = 0 THEN NaN
                          ELSE Rat((year - base_year) * 100, total_years)]

\* the ProjectionProgress handed to the callback
progress_of(year, base_year, total_years) ==
    [current_year |-> year, total_years |-> total_years,
     percent_complete |-> IF total_years = 0 THEN NaN
                          ELSE Rat((year - base_year) * 100, total_years)]

\* a variant whose loop stops one year early
scenario_years_Exclusive(year, base_year, end_year) == base_year <= year /\ year < end_year

\* for year in scenario.base_year..=scenario.end_year
scenario_years(year, base_year, end_year) == base_year <= year /\ year <= end_year

Shock(shock_type, start_year, end_year, target_regions, target_genders, target_ages, modifier) ==
    [shock_type |-> shock_type, start_year |-> start_year, end_year |-> end_year,
     target_regions |-> target_regions, target_genders |-> target_genders,
     target_ages |-> target_ages, modifier |-> modifier]

AllAges == [some |-> FALSE, min |-> 0, max |-> 0]
Ages(min, max) == [some |-> TRUE, min |-> min, max |-> max]

ShockLists ==
    { <<>>,
      << Shock("Mortality", 2025, 2026, <<>>, <<>>, AllAges, Int2R(2)) >>,
      << Shock("Fertility", 2024, 2025, <<"A">>, <<"Female">>, Ages(15, 49), Half),
         Shock("Mortality", 2026, 2030, <<"B">>, <<"Male">>, Ages(0, 14), Zero),
         Shock("Migration", 2024, 2030, <<>>, <<>>, AllAges, Zero) >> }

\* scenarios of base_year <= end_year: total_years = end_year - base_year is a u32
Scenarios ==
    { [base_year |-> b, end_year |-> e, regions |-> r, shocks |-> x] :
        b \in BaseYears, e \in 2024..(2024 + MaxSpan), r \in RegionLists \cup {<<>>},
        x \in ShockLists }

\* the second cohort of "A" repeats a key: insert keeps the later count
InitialPopulations ==
    { <<>>,
      << Cohort(15, "Female", "A", Int2R(2)), Cohort(15, "Male", "A", Int2R(2)) >>,
      << Cohort(15, "Female", "A", Int2R(2)), Cohort(15, "Female", "A", One),
         Cohort(120, "Male", "A", Int2R(2)), Cohort(49, "Female", "B", One) >> }

MortalityTableLists ==
    { <<>>,
      << FlatMortality("A", Rat(1, 10), Rat(1, 5)) >>,
      << SparseMortality("A"), FlatMortality("B", Zero, Zero), FlatMortality("A", Zero, Half) >> }

FertilityTableLists ==
    { <<>>,
      << FlatFertility("A", Half, Int2R(105)) >>,
      << FlatFertility("A", Half, Int2R(105)), SparseFertility("B", Int2R(100)) >> }

\* run_projection up to the loop: the engine is loaded from the arguments and
\* from the scenario's shocks
StartProjection ==
    /\ engine_pc = "idle"
    /\ pc = "idle"
    /\ \E sc \in Scenarios, initial_population \in InitialPopulations,
          mts \in MortalityTableLists, fts \in FertilityTableLists :
        /\ scenario' = sc
        /\ engine_population' = engine_load_population(initial_population)
        /\ engine_mortality_tables' = load_tables(engine_mortality_tables, mts)
        /\ engine_fertility_tables' = load_tables(engine_fertility_tables, fts)
        /\ shocks' = sc.shocks
        /\ years' = <<>>
        /\ progress' = <<>>
        /\ engine_trail' = << engine_load_population(initial_population) >>
        /\ engine_year' = sc.base_year
    /\ engine_pc' = "loop"
    /\ publish_result' = "none"
    /\ UNCHANGED <<call_vars, store_vars, ccm_vars, handler_vars, runs, projection_result, accepted>>

\* u32::saturating_sub
saturating_sub(a, b) == IF a >= b THEN a - b ELSE 0

\* handle_scenario_submit: the scenario is built from the request and saved, the
\* accepted response is published, and run_projection is spawned, which runs a
\* DemographicEngine::new() holding the scenario's shocks and no data
SubmitScenario ==
    /\ engine_pc = "idle"
    /\ pc = "idle"
    /\ \E sc \in Scenarios :
        /\ scenario' = sc
        /\ accepted' = << [scenario |-> sc,
                           estimated_duration_ms |->
                               saturating_sub(sc.end_year, sc.base_year) * 10] >>
        /\ engine_population' = engine_load_population(<<>>)
        /\ engine_mortality_tables' = load_tables(engine_mortality_tables, <<>>)
        /\ engine_fertility_tables' = load_tables(engine_fertility_tables, <<>>)
        /\ shocks' = sc.shocks
        /\ years' = <<>>
        /\ progress' = <<>>
        /\ engine_trail' = << engine_load_population(<<>>) >>
        /\ engine_year' = sc.base_year
    /\ engine_pc' = "loop"
    /\ publish_result' = "none"
    /\ UNCHANGED <<call_vars, store_vars, ccm_vars, handler_vars, runs, projection_result>>

\* what try_publish can come to: the message is on its way, nobody listens,
\* or the client refuses it (Err, e.g. its buffer is full)
PublishResults == {"sent", "no_consumer", "failed"}

\* a loop that gives up when the sink fails
after_publish_Abort(result) == IF result = "failed" THEN "aborted" ELSE "loop"

\* `let _ = client_clone.try_publish(..)` and a callback that returns (): the
\* loop goes on whatever became of the record
after_publish(result) == "loop"

\* one pass of the loop: the year is projected, its record pushed, the
\* progress reported
ProjectYear ==
    /\ engine_pc = "loop"
    /\ scenario_years(engine_year, scenario.base_year, scenario.end_year)
    /\ \E out \in {project_year(EngineSelf, engine_year, scenario.regions)} :
        /\ engine_population' = out.population
        /\ years' = Append(years, out.result)
        /\ engine_trail' = Append(engine_trail, out.population)
    /\ progress' = Append(progress,
                          progress_of(engine_year, scenario.base_year,
                                      scenario.end_year - scenario.base_year))
    /\ engine_year' = engine_year + 1
    /\ \E result \in PublishResults :
        /\ publish_result' = result
        /\ engine_pc' = after_publish(result)
    /\ UNCHANGED <<call_vars, store_vars, ccm_vars, handler_vars, runs, engine_mortality_tables, engine_fertility_tables,
                   shocks, scenario, projection_result, accepted>>

\* the loop is over: the ProjectionResult
FinishProjection ==
    /\ engine_pc = "loop"
    /\ ~scenario_years(engine_year, scenario.base_year, scenario.end_year)
    /\ projection_result' = [base_year |-> scenario.base_year, end_year |-> scenario.end_year,
                             years |-> years]
    /\ engine_pc' = "done"
    /\ UNCHANGED <<call_vars, store_vars, ccm_vars, handler_vars, runs, engine_population, engine_mortality_tables,
                   engine_fertility_tables, shocks, scenario, engine_year, years, progress,
                   engine_trail, accepted, publish_result>>

\* the result is published and the engine of the run is dropped; the next
\* scenario gets a DemographicEngine::new()
DropEngine ==
    /\ engine_pc = "done"
    /\ engine_pc' = "idle"
    /\ engine_population' = EmptyMap
    /\ engine_mortality_tables' = EmptyMap
    /\ engine_fertility_tables' = EmptyMap
    /\ shocks' = <<>>
    /\ scenario' = NoScenario
    /\ engine_year' = 0
    /\ years' = <<>>
    /\ progress' = <<>>
    /\ projection_result' = NoProjectionResult
    /\ engine_trail' = <<>>
    /\ accepted' = <<>>
    /\ publish_result' = "none"
    /\ UNCHANGED <<call_vars, store_vars, ccm_vars, handler_vars, runs>>

NextEngine ==
    \/ StartProjection
    \/ SubmitScenario
    \/ ProjectYear
    \/ FinishProjection
    \/ DropEngine

\* the runs of the projection handler and of the engine
NextRuns ==
    \/ NextHandler
    \/ NextEngine

SpecRuns == Init /\ [][NextRuns]_vars

(***************************************************************************)
(* Scenario runs side by side (handlers/scenario.rs): every spawned task    *)
(* builds its own DemographicEngine and steps it; the tasks interleave      *)
(***************************************************************************)
\* scenarios of one or two years over region "A", with and without shocks
ConcurrentScenarios ==
    { [base_year |-> 2024, end_year |-> e, regions |-> <<"A">>, shocks |-> x] :
        e \in 2024..2025,
        x \in { <<>>, << Shock("Mortality", 2024, 2025, <<>>, <<>>, AllAges, Int2R(2)) >> } }

\* an engine that every task would share
engine_of_Shared(rs, i) == rs[1].engine

\* the engine a task steps: the one it built itself
engine_of(rs, i) == rs[i].engine

\* tokio::spawn(run_projection(scenario, ..)): let mut engine =
\* DemographicEngine::new(), loaded with the run's data and shocks
SpawnRun(i) ==
    /\ runs[i].pc = "idle"
    /\ \E sc \in ConcurrentScenarios, initial_population \in InitialPopulations :
        \E e \in {[population |-> engine_load_population(initial_population),
                   mortality_tables |->
                       load_tables(EmptyMap, << FlatMortality("A", Rat(1, 10), Rat(1, 5)) >>),
                   fertility_tables |->
                       load_tables(EmptyMap, << FlatFertility("A", Half, Int2R(105)) >>),
                   shocks |-> sc.shocks]} :
            runs' = [runs EXCEPT ![i] = [pc |-> "loop", scenario |-> sc, year |-> sc.base_year,
                                         years |-> <<>>, engine |-> e, first |-> e]]
    /\ UNCHANGED <<ccm_vars, handler_vars, call_vars, store_vars>>
    /\ UNCHANGED <<engine_population, engine_mortality_tables, engine_fertility_tables, shocks,
                   scenario, engine_pc, engine_year, years, progress, projection_result,
                   engine_trail, accepted, publish_result>>

\* one pass of the loop of task i
StepRun(i) ==
    /\ runs[i].pc = "loop"
    /\ scenario_years(runs[i].year, runs[i].scenario.base_year, runs[i].scenario.end_year)
    /\ \E out \in {project_year(engine_of(runs, i), runs[i].year, runs[i].scenario.regions)} :
        runs' = [runs EXCEPT ![i].engine.population = out.population,
                             ![i].years = Append(runs[i].years, out.result),
                             ![i].year = runs[i].year + 1]
    /\ UNCHANGED <<ccm_vars, handler_vars, call_vars, store_vars>>
    /\ UNCHANGED <<engine_population, engine_mortality_tables, engine_fertility_tables, shocks,
                   scenario, engine_pc, engine_year, years, progress, projection_result,
                   engine_trail, accepted, publish_result>>

\* the loop of task i is over
EndRun(i) ==
    /\ runs[i].pc = "loop"
    /\ ~scenario_years(runs[i].year, runs[i].scenario.base_year, runs[i].scenario.end_year)
    /\ runs' = [runs EXCEPT ![i].pc = "done"]
    /\ UNCHANGED <<ccm_vars, handler_vars, call_vars, store_vars>>
    /\ UNCHANGED <<engine_population, engine_mortality_tables, engine_fertility_tables, shocks,
                   scenario, engine_pc, engine_year, years, progress, projection_result,
                   engine_trail, accepted, publish_result>>

NextConcurrent == \E i \in RunIds : SpawnRun(i) \/ StepRun(i) \/ EndRun(i)

SpecConcurrent == Init /\ [][NextConcurrent]_vars

(***************************************************************************)
(* storage/memory.rs: MemoryPopulationStore                                *)
(***************************************************************************)
\* a string is the sequence of its characters
DigitChars == <<"0", "1", "2", "3", "4", "5", "6", "7", "8", "9">>

\* the decimal form of a u32 that `{}` writes
RECURSIVE to_string(_)
to_string(n) ==
    IF n < 10 THEN << DigitChars[n + 1] >>
    ELSE to_string(n \div 10) \o << DigitChars[(n % 10) + 1] >>

\* format!("{}:{}", scenario_id, year)
key(scenario_id, year) == scenario_id \o << ":" >> \o to_string(year)

\* str::starts_with
starts_with(k, prefix) ==
    Len(k) >= Len(prefix) /\ SubSeq(k, 1, Len(prefix)) = prefix

\* store.insert(Self::key(scenario_id, year), population.clone())
save(self_store, scenario_id, year, snapshot) ==
    [k \in DOMAIN self_store \cup {key(scenario_id, year)} |->
        IF k = key(scenario_id, year) THEN snapshot ELSE self_store[k]]

\* store.get(&Self::key(scenario_id, year)).cloned()
get(self_store, scenario_id, year) ==
    IF key(scenario_id, year) \in DOMAIN self_store
    THEN [some |-> TRUE, value |-> self_store[key(scenario_id, year)]]
    ELSE [some |-> FALSE]

\* store.retain(|k, _| !k.starts_with(&format!("{}:", scenario_id)))
delete_for_scenario(self_store, scenario_id) ==
    [k \in {x \in DOMAIN self_store : ~starts_with(x, scenario_id \o << ":" >>)} |->
        self_store[k]]

\* the most snapshots the store holds at a time
MaxSnapshots == 2

\* scenario ids: "a", "b", "ab" and "a:b"
ScenarioIds == { << "a" >>, << "b" >>, << "a", "b" >>, << "a", ":", "b" >> }
SnapshotYears == {2024, 2025}
\* two Population values that differ
Snapshots == {"first", "second"}

\* each operation holds the RwLock from its first statement to its last, so the
\* operations of concurrent callers take effect one at a time, in any order
Save ==
    \E scenario_id \in ScenarioIds, year \in SnapshotYears, snapshot \in Snapshots :
        /\ Cardinality(DOMAIN save(store, scenario_id, year, snapshot)) <= MaxSnapshots
        /\ store' = save(store, scenario_id, year, snapshot)
        /\ store_last' = [op |-> "save", scenario_id |-> scenario_id, year |-> year,
                          before |-> store]
        /\ UNCHANGED <<ccm_vars, handler_vars, engine_vars, call_vars>>

Get ==
    \E scenario_id \in ScenarioIds, year \in SnapshotYears :
        /\ store_last' = [op |-> "get", scenario_id |-> scenario_id, year |-> year,
                          before |-> store,
                          result |-> get(store, scenario_id, year)]
        /\ UNCHANGED <<store, ccm_vars, handler_vars, engine_vars, call_vars>>

DeleteForScenario ==
    \E scenario_id \in ScenarioIds :
        /\ store' = delete_for_scenario(store, scenario_id)
        /\ store_last' = [op |-> "delete_for_scenario", scenario_id |-> scenario_id,
                          before |-> store]
        /\ UNCHANGED <<ccm_vars, handler_vars, engine_vars, call_vars>>

NextStore == Save \/ Get \/ DeleteForScenario

SpecStore == Init /\ [][NextStore]_vars

(***************************************************************************)
(* Reading a finished step: the call, the model before it, what it returned *)
(***************************************************************************)
Stepped == last.op = "project_one_year"
Before == last.before
Result == last.result
Listed == {last.regions[i] : i \in 1..Len(last.regions)}

\* the count stored before the step, 0 for a key that is not stored
CountBefore(a, g, r) ==
    LET k == <<a, IF g = "Male" THEN "M" ELSE "F", r>>
    IN  IF k \in DOMAIN Before.population THEN Before.population[k] ELSE Zero

\* the count stored after the step
CountAfter(a, g, r) ==
    LET k == <<a, IF g = "Male" THEN "M" ELSE "F", r>>
    IN  IF k \in DOMAIN population THEN population[k] ELSE Zero

RECURSIVE Sum(_)
Sum(f) ==
    IF DOMAIN f = {} THEN Zero
    ELSE LET k == CHOOSE x \in DOMAIN f : TRUE
         IN  RAdd(f[k], Sum([x \in DOMAIN f \ {k} |-> f[x]]))

TotalBefore == Sum(Before.population)
TotalAfter == Sum(population)

\* the entry of a table for an age: the first one, as a set of at most one record
Entry(tables, r, a) ==
    IF r \notin DOMAIN tables THEN {}
    ELSE LET rs == tables[r].rates
             ix == {i \in 1..Len(rs) : rs[i].age = a}
         IN  {rs[i] : i \in {j \in ix : \A l \in ix : j <= l}}

\* the net migration the tables give a cohort, 0 without an entry
RefMigration(a, g, r) ==
    LET e == Entry(Before.migration_tables, r, a)
    IN  IF e = {} THEN Zero
        ELSE LET x == CHOOSE y \in e : TRUE IN IF g = "Male" THEN x.male ELSE x.female

\* whether the tables hold a mortality rate for the cohort
HasMortality(a, g, r) == Entry(Before.mortality_tables, r, a) # {}

\* the mortality rate of the tables; only used where HasMortality holds
TableMortality(a, g, r) ==
    LET x == CHOOSE y \in Entry(Before.mortality_tables, r, a) : TRUE
    IN  IF g = "Male" THEN x.male ELSE x.female

\* the cohorts of the listed regions that the step can change: those stored
\* before it and those with a migration entry, at ages 0..=120
RefAges ==
    {a \in {k[1] : k \in DOMAIN Before.population}
            \cup UNION {{Before.migration_tables[r].rates[i].age :
                             i \in 1..Len(Before.migration_tables[r].rates)} :
                        r \in DOMAIN Before.migration_tables} : a <= MAX_AGE}

RefCohorts ==
    {c \in RefAges \X Gender \X Listed :
        \/ RGt(CountBefore(c[1], c[2], c[3]), Zero)
        \/ RefMigration(c[1], c[2], c[3]) # Zero}

\* what the step's migration adds to a cohort (negative: removes)
RefMoved(a, g, r) ==
    LET m == RefMigration(a, g, r)
        c == CountBefore(a, g, r)
    IN  IF RGt(m, Zero) THEN m
        ELSE IF RLt(RNeg(m), c) THEN m ELSE RNeg(c)

RefPostMigration(a, g, r) == RAdd(CountBefore(a, g, r), RefMoved(a, g, r))

\* C1 (Conservation): after every step the returned total equals the pre-step
\* total plus births minus deaths plus net migration.
C1_Conservation ==
    Stepped =>
        /\ Result.total_population = TotalAfter
        /\ TotalAfter = RAdd(RSub(RAdd(TotalBefore, Result.births), Result.deaths),
                             Result.net_migration)

\* C2 (Non-negativity): after any sequence of steps every stored count and the
\* total are >= 0, also with a mortality rate above 1.0 and with net emigration
\* above the cohort size.
C2_NonNegative ==
    Stepped =>
        /\ \A k \in DOMAIN population : RGe(population[k], Zero)
        /\ RGe(TotalAfter, Zero)
        /\ RGe(Result.total_population, Zero)

\* a step over a cohort whose table rate is above 1.0 and over a cohort whose
\* net emigration is above its size
C2_Witness ==
    /\ Stepped
    /\ \E c \in RefCohorts :
        /\ RGt(RefPostMigration(c[1], c[2], c[3]), Zero)
        /\ HasMortality(c[1], c[2], c[3])
        /\ RGt(TableMortality(c[1], c[2], c[3]), One)
    /\ \E c \in RefCohorts :
        /\ RGt(CountBefore(c[1], c[2], c[3]), Zero)
        /\ RGt(RNeg(RefMigration(c[1], c[2], c[3])), CountBefore(c[1], c[2], c[3]))

\* the mortality rate a cohort is subject to by the documented defaults: the
\* table's rate limited to [0, 1], and 1 where the tables hold none
RefMortality(a, g, r) ==
    IF ~HasMortality(a, g, r) THEN One
    ELSE LET x == TableMortality(a, g, r)
         IN  IF RLt(x, Zero) THEN Zero ELSE IF RGt(x, One) THEN One ELSE x

RefDeaths(a, g, r) == RMul(RefPostMigration(a, g, r), RefMortality(a, g, r))
RefSurvivors(a, g, r) == RSub(RefPostMigration(a, g, r), RefDeaths(a, g, r))

\* the region's table has a rate for every age 0..=120 and all its rates are 0
ZeroMortality(r) ==
    /\ r \in DOMAIN Before.mortality_tables
    /\ LET rs == Before.mortality_tables[r].rates
       IN  /\ \A a \in 0..MAX_AGE : \E i \in 1..Len(rs) : rs[i].age = a
           /\ \A i \in 1..Len(rs) : rs[i].male = Zero /\ rs[i].female = Zero

\* the region's migration table, if any, moves nobody
NoMigration(r) ==
    r \in DOMAIN Before.migration_tables =>
        \A i \in 1..Len(Before.migration_tables[r].rates) :
            /\ Before.migration_tables[r].rates[i].male = Zero
            /\ Before.migration_tables[r].rates[i].female = Zero

\* C3 (Aging and open interval): in a listed region with zero mortality and no
\* migration every cohort of age a < 120 moves entirely to a+1 and the age-120
\* cohort stays: count'(a+1) = count(a) for a < 119, count'(120) = count(119) +
\* count(120).
C3_Aging ==
    Stepped =>
        \A r \in Listed : (ZeroMortality(r) /\ NoMigration(r)) =>
            \A g \in Gender :
                /\ \A a \in 0..(MAX_AGE - 2) : CountAfter(a + 1, g, r) = CountBefore(a, g, r)
                /\ CountAfter(MAX_AGE, g, r) =
                       RAdd(CountBefore(MAX_AGE - 1, g, r), CountBefore(MAX_AGE, g, r))

\* a step that moves the age-119 cohort up into the open interval, where the
\* age-120 cohort has stayed, and leaves age 119 empty
C3_Witness ==
    /\ Stepped
    /\ \E r \in Listed :
        /\ ZeroMortality(r) /\ NoMigration(r)
        /\ RGt(CountBefore(MAX_AGE - 1, "Male", r), Zero)
        /\ RGt(CountBefore(MAX_AGE, "Male", r), Zero)
        /\ RGt(CountAfter(MAX_AGE, "Male", r), CountBefore(MAX_AGE, "Male", r))
        /\ CountAfter(MAX_AGE - 1, "Male", r) = Zero

RefTotalDeaths == Sum([c \in RefCohorts |-> RefDeaths(c[1], c[2], c[3])])

\* C4 (Missing-rate defaulting): a cohort whose age is absent from its region's
\* mortality table, or whose region has no table, dies entirely: its whole
\* post-migration count is added to deaths and none of it is in the next state.
C4_MissingRate ==
    Stepped =>
        /\ Result.deaths = RefTotalDeaths
        /\ \A c \in RefCohorts : ~HasMortality(c[1], c[2], c[3]) =>
              /\ RefDeaths(c[1], c[2], c[3]) = RefPostMigration(c[1], c[2], c[3])
              /\ c[1] < MAX_AGE - 1 => CountAfter(c[1] + 1, c[2], c[3]) = Zero
              /\ c[1] = MAX_AGE - 1 =>
                     CountAfter(MAX_AGE, c[2], c[3]) = RefSurvivors(MAX_AGE, c[2], c[3])
              /\ c[1] = MAX_AGE =>
                     CountAfter(MAX_AGE, c[2], c[3]) = RefSurvivors(MAX_AGE - 1, c[2], c[3])

\* a step over a cohort whose age is absent from its region's table and over a
\* cohort whose region has no table, both with people in them
C4_Witness ==
    /\ Stepped
    /\ \E c \in RefCohorts :
        /\ c[3] \in DOMAIN Before.mortality_tables
        /\ ~HasMortality(c[1], c[2], c[3])
        /\ RGt(RefPostMigration(c[1], c[2], c[3]), Zero)
    /\ \E c \in RefCohorts :
        /\ c[3] \notin DOMAIN Before.mortality_tables
        /\ RGt(RefPostMigration(c[1], c[2], c[3]), Zero)
    /\ RGt(Result.deaths, Zero)

RefNetMigration == Sum([c \in RefCohorts |-> RefMoved(c[1], c[2], c[3])])

\* C5 (Migration cap): a cohort of count c with negative net migration m loses
\* exactly min(|m|, c), never goes below 0, and the reported net migration falls
\* by the amount removed (not by |m|).
C5_MigrationCap ==
    Stepped =>
        /\ Result.net_migration = RefNetMigration
        /\ \A c \in RefCohorts :
              LET m == RefMigration(c[1], c[2], c[3])
                  n == CountBefore(c[1], c[2], c[3])
                  removed == IF RLt(RNeg(m), n) THEN RNeg(m) ELSE n
              IN  RLt(m, Zero) =>
                    /\ RefPostMigration(c[1], c[2], c[3]) = RSub(n, removed)
                    /\ RGe(RefPostMigration(c[1], c[2], c[3]), Zero)
                    /\ (c[1] < MAX_AGE - 1 /\ RefMortality(c[1], c[2], c[3]) = Zero) =>
                           CountAfter(c[1] + 1, c[2], c[3]) = RSub(n, removed)

\* a step in which one cohort's net emigration is above its size and is cut to
\* it, and another's is below its size, under zero mortality
C5_Witness ==
    /\ Stepped
    /\ \E c \in RefCohorts :
        /\ RGt(CountBefore(c[1], c[2], c[3]), Zero)
        /\ RGt(RNeg(RefMigration(c[1], c[2], c[3])), CountBefore(c[1], c[2], c[3]))
        /\ RefMortality(c[1], c[2], c[3]) = Zero
        /\ c[1] < MAX_AGE - 1
        /\ CountAfter(c[1] + 1, c[2], c[3]) = Zero
    /\ \E c \in RefCohorts :
        /\ RLt(RefMigration(c[1], c[2], c[3]), Zero)
        /\ RLt(RNeg(RefMigration(c[1], c[2], c[3])), CountBefore(c[1], c[2], c[3]))
        /\ RefMortality(c[1], c[2], c[3]) = Zero
        /\ c[1] < MAX_AGE - 1
        /\ RGt(CountAfter(c[1] + 1, c[2], c[3]), Zero)

\* every rate the step reads for a listed region is 1.0: the region has no
\* table, or every entry of its table is 1.0 (a missing age reads as 1.0)
TotalMortality ==
    \A r \in Listed :
        r \in DOMAIN Before.mortality_tables =>
            \A i \in 1..Len(Before.mortality_tables[r].rates) :
                /\ Before.mortality_tables[r].rates[i].male = One
                /\ Before.mortality_tables[r].rates[i].female = One

\* the stored cohorts the step visits: those of a listed region at an age of 0..=120
VisitedKeys == {k \in DOMAIN Before.population : k[3] \in Listed /\ k[1] <= MAX_AGE}

VisitedTotal == Sum([k \in VisitedKeys |-> Before.population[k]])

\* C6 as stated, read on the states in which every stored cohort is visited:
\* under mortality 1.0 everywhere the total after the step is 0 and the deaths
\* equal the pre-step total.
C6_Original ==
    (Stepped /\ TotalMortality /\ VisitedKeys = DOMAIN Before.population) =>
        /\ Result.total_population = Zero
        /\ Result.deaths = TotalBefore

\* C6 (Extinction, amended): under mortality 1.0 for every age and gender of
\* every listed region, after one step only newborns are left (the total equals
\* the step's births, 0 when there are none) and the deaths equal the pre-step
\* count of the visited cohorts plus the net migration.
C6_Extinction ==
    (Stepped /\ TotalMortality) =>
        /\ \A k \in DOMAIN population : k[1] = 0
        /\ Result.total_population = Result.births
        /\ Result.deaths = RAdd(VisitedTotal, Result.net_migration)

\* a step under total mortality over a population with women who give birth
C6_Witness ==
    /\ Stepped /\ TotalMortality
    /\ VisitedKeys = DOMAIN Before.population
    /\ RGt(TotalBefore, Zero)
    /\ RGt(Result.births, Zero)
    /\ Result.total_population = Result.births
    /\ Result.deaths = TotalBefore

\* the fertility rate the tables give an age, 0 without an entry
RefFertility(a, r) ==
    LET e == Entry(Before.fertility_tables, r, a)
    IN  IF e = {} THEN Zero ELSE (CHOOSE y \in e : TRUE).rate

\* the women of a region who can give birth
FertileWomen(r) ==
    {a \in FERTILITY_MIN_AGE..FERTILITY_MAX_AGE : RGt(CountBefore(a, "Female", r), Zero)}

\* the births of a region: women aged 15..49 times their rate, 0 if not positive
RefRegionBirths(r) ==
    LET t == Sum([a \in FertileWomen(r) |->
                     RMul(CountBefore(a, "Female", r), RefFertility(a, r))])
    IN  IF RGt(t, Zero) THEN t ELSE Zero

RefSexRatio(r) ==
    IF r \in DOMAIN Before.fertility_tables
    THEN Before.fertility_tables[r].sex_ratio_at_birth ELSE Int2R(105)

\* C7 (Sex-only fertility): the births of a step come only from the female
\* cohorts aged 15..49 of the listed regions; males and females outside 15..49
\* add nothing, so without females aged 15..49 the births are 0.
C7_SexOnlyFertility ==
    Stepped =>
        /\ Result.births = Sum([r \in Listed |-> RefRegionBirths(r)])
        /\ (\A r \in Listed : FertileWomen(r) = {}) => Result.births = Zero

\* a step with no woman aged 15..49 over a man of fertile age and a woman aged
\* 50, both at ages for which the fertility table has a positive rate
C7_Witness ==
    /\ Stepped
    /\ \A r \in Listed : FertileWomen(r) = {}
    /\ \E r \in Listed :
        /\ \E a \in FERTILITY_MIN_AGE..FERTILITY_MAX_AGE :
              RGt(CountBefore(a, "Male", r), Zero) /\ RGt(RefFertility(a, r), Zero)
        /\ RGt(CountBefore(FERTILITY_MAX_AGE + 1, "Female", r), Zero)
        /\ RGt(RefFertility(FERTILITY_MAX_AGE + 1, r), Zero)
    /\ Result.births = Zero

\* C8 (Sex-ratio split): calculate_births splits the births B of a region into
\* male = B * s/(s+100) and female = B - male, so male + female = B, and for
\* s = 100 the two are equal.
C8_SexRatioSplit ==
    Stepped =>
        \A r \in Listed :
            LET b == calculate_births(Before, r)
                sr == RefSexRatio(r)
            IN  /\ b.total = RefRegionBirths(r)
                /\ b.male = RDiv(RMul(b.total, sr), RAdd(sr, Hundred))
                /\ b.female = RSub(b.total, b.male)
                /\ RAdd(b.male, b.female) = b.total
                /\ sr = Hundred => b.male = b.female

\* a step with births in a region whose sex ratio at birth is 100, and the two
\* newborn cohorts equal
C8_Witness ==
    /\ Stepped
    /\ \E r \in Listed :
        /\ RefSexRatio(r) = Hundred
        /\ RGt(RefRegionBirths(r), Zero)
        /\ CountAfter(0, "Male", r) = CountAfter(0, "Female", r)
        /\ RAdd(CountAfter(0, "Male", r), CountAfter(0, "Female", r)) = RefRegionBirths(r)

\* the male newborns of a region
RefMaleBirths(r) == RDiv(RMul(RefRegionBirths(r), RefSexRatio(r)), RAdd(RefSexRatio(r), Hundred))

\* C9 (Newborns bypass the cycle): after a step the age-0 cohorts of each listed
\* region hold exactly the step's newborns of the region, whatever the year's
\* age-0 migration and mortality entries are, and their sum is the region's births.
C9_NewbornsBypass ==
    Stepped =>
        \A r \in Listed :
            /\ CountAfter(0, "Male", r) = RefMaleBirths(r)
            /\ CountAfter(0, "Female", r) = RSub(RefRegionBirths(r), RefMaleBirths(r))
            /\ RAdd(CountAfter(0, "Male", r), CountAfter(0, "Female", r)) = RefRegionBirths(r)

\* a step with births in a region that has age-0 migration and mortality
\* entries and an age-0 cohort from before
C9_Witness ==
    /\ Stepped
    /\ \E r \in Listed :
        /\ RGt(RefRegionBirths(r), Zero)
        /\ RefMigration(0, "Male", r) # Zero
        /\ RefMigration(0, "Female", r) # Zero
        /\ HasMortality(0, "Male", r) /\ TableMortality(0, "Male", r) # Zero
        /\ RGt(CountBefore(0, "Female", r), Zero)
        /\ RGt(CountAfter(0, "Male", r), Zero)

(***************************************************************************)
(* The year sequence of a run                                              *)
(***************************************************************************)
\* the engine the k-th step of run_projection started from
EngineStateBefore(k) ==
    [population |-> engine_trail[k], mortality_tables |-> engine_mortality_tables,
     fertility_tables |-> engine_fertility_tables, shocks |-> shocks]

\* the years of DemographicEngine::run_projection
EngineYearSequence ==
    /\ engine_pc = "done" =>
           /\ Len(projection_result.years) = scenario.end_year - scenario.base_year + 1
           /\ projection_result.years = years
           /\ projection_result.years[Len(projection_result.years)].year = scenario.end_year
    /\ engine_pc = "loop" => Len(years) <= scenario.end_year - scenario.base_year + 1
    /\ Len(engine_trail) = (IF engine_pc = "idle" THEN 0 ELSE Len(years) + 1)
    /\ Len(progress) = Len(years)
    /\ \A k \in 1..Len(years) :
           /\ years[k].year = scenario.base_year + k - 1
           /\ k > 1 => years[k - 1].year < years[k].year
           /\ \E out \in {project_year(EngineStateBefore(k), years[k].year, scenario.regions)} :
                  /\ engine_trail[k + 1] = out.population
                  /\ years[k] = out.result

\* the model the k-th step of the handler's run started from
RunStateBefore(k) ==
    [population |-> trail[k], mortality_tables |-> mortality_tables,
     fertility_tables |-> fertility_tables, migration_tables |-> migration_tables]

\* the years of run_projection of the projection handler
HandlerYearSequence ==
    /\ (pc = "replied" /\ response.success) =>
           /\ Len(response.years) = request.end_year - request.base_year + 1
           /\ response.years = results
           /\ response.years[Len(response.years)].year = request.end_year
           /\ response.years_projected = Len(response.years)
    /\ pc = "loop" => Len(results) <= request.end_year - request.base_year + 1
    /\ Len(trail) = (IF pc = "idle" \/ validation_error(request) # "" THEN 0
                     ELSE Len(results) + 1)
    /\ \A k \in 1..Len(results) :
           /\ results[k].year = request.base_year + k - 1
           /\ k > 1 => results[k - 1].year < results[k].year
           /\ \E out \in {project_one_year(RunStateBefore(k), results[k].year,
                                           <<HandlerRegion>>)} :
                  /\ trail[k + 1] = out.population
                  /\ results[k] = year_result(results[k].year, out.result)

\* C10 (Year sequence): a run over [base_year, end_year] yields exactly
\* end_year - base_year + 1 records, their years are base_year, base_year + 1,
\* ..., end_year in strictly increasing order, and the k-th record is the
\* summary of the step applied to the state left by step k-1; for the run of
\* the engine and for the run of the projection handler.
C10_YearSequence == EngineYearSequence /\ HandlerYearSequence

\* the engine's run over [2024, 2028] has returned its 5 records, and every
\* step changed the population
C10_Witness ==
    /\ engine_pc = "done"
    /\ scenario.base_year = 2024 /\ scenario.end_year = 2028
    /\ Len(projection_result.years) = 5
    /\ \A k \in 1..5 : projection_result.years[k].year = 2023 + k
    /\ \A k \in 1..5 : engine_trail[k] # engine_trail[k + 1]
    /\ \A k \in 1..4 : projection_result.years[k].total_population
                           # projection_result.years[k + 1].total_population

\* the handler's run over [2024, 2028] has replied with its 5 records, and
\* every step changed the population
HandlerRunWitness ==
    /\ pc = "replied" /\ response.success
    /\ request.base_year = 2024 /\ request.end_year = 2028
    /\ Len(response.years) = 5
    /\ \A k \in 1..5 : trail[k] # trail[k + 1]
    /\ \A k \in 1..4 : response.years[k].total_population # response.years[k + 1].total_population

(***************************************************************************)
(* Functions that read no state (types/shock.rs, types/scenario.rs,        *)
(* engine/types.rs): each action calls one of them on inputs drawn from    *)
(* the sets below and records the call and what it returned                *)
(***************************************************************************)

\* Target<T> of types/shock.rs: All | Specific(Vec<T>)
Target_All == [all |-> TRUE, list |-> <<>>]
Target_Specific(list) == [all |-> FALSE, list |-> list]

\* AgeTarget of types/shock.rs: All | Range(AgeGroup)
AgeTarget_All == [all |-> TRUE, min |-> 0, max |-> 0]
AgeTarget_Range(min, max) == [all |-> FALSE, min |-> min, max |-> max]

\* AgeTarget::contains
AgeTarget_contains(target, age) == target.all \/ AgeGroup_contains(target, age)

\* Shock::applies of types/shock.rs: a Specific list is searched whatever its length
Shock_applies(shock, year, age, gender, region_id) ==
    /\ ~(year < shock.start_year \/ year > shock.end_year)
    /\ ~(~shock.target_regions.all /\ ~Contains(shock.target_regions.list, region_id))
    /\ ~(~shock.target_genders.all /\ ~Contains(shock.target_genders.list, gender))
    /\ AgeTarget_contains(shock.target_ages, age)

ProbeYears == 2024..2027
ProbeAges == {14, 15, 49, 50}
ProbeRegions == {"A", "B"}

\* shocks of engine/types.rs over 2025..2026, every combination of filters
EngineShocks ==
    { Shock("Mortality", 2025, 2026, r, g, a, Int2R(2)) :
        r \in {<<>>, <<"A">>, <<"B", "A">>}, g \in {<<>>, <<"Female">>},
        a \in {AllAges, Ages(15, 49)} }

\* shocks of types/shock.rs over 2025..2026, every combination of targets
TypedShocks ==
    { Shock("Mortality", 2025, 2026, r, g, a, Int2R(2)) :
        r \in {Target_All, Target_Specific(<<>>), Target_Specific(<<"A">>)},
        g \in {Target_All, Target_Specific(<<>>), Target_Specific(<<"Female">>)},
        a \in {AgeTarget_All, AgeTarget_Range(15, 49)} }

CallAppliesTo ==
    /\ call = NoProbe
    /\ \E shock \in EngineShocks, year \in ProbeYears, region_id \in ProbeRegions,
       gender \in Gender, age \in ProbeAges :
        /\ call' = [op |-> "applies_to", shock |-> shock, year |-> year,
                    region_id |-> region_id, gender |-> gender, age |-> age]
        /\ ret' = [op |-> "applies_to",
                   value |-> Shock_applies_to(shock, year, region_id, gender, age)]
        /\ UNCHANGED <<ccm_vars, handler_vars, engine_vars, store_vars>>

CallApplies ==
    /\ call = NoProbe
    /\ \E shock \in TypedShocks, year \in ProbeYears, region_id \in ProbeRegions,
       gender \in Gender, age \in ProbeAges :
        /\ call' = [op |-> "applies", shock |-> shock, year |-> year,
                    region_id |-> region_id, gender |-> gender, age |-> age]
        /\ ret' = [op |-> "applies",
                   value |-> Shock_applies(shock, year, age, gender, region_id)]
        /\ UNCHANGED <<ccm_vars, handler_vars, engine_vars, store_vars>>

\* longest shock list registered before a call of apply_shocks
MaxShocks == 2

\* shocks to register: two of the requested type that always apply (3.0 and
\* 0.5), one of another type, one for region "B" in 2026 only, one negative
ShockPool ==
    { Shock("Mortality", 2024, 2030, <<>>, <<>>, AllAges, Int2R(3)),
      Shock("Mortality", 2024, 2030, <<>>, <<>>, AllAges, Half),
      Shock("Fertility", 2024, 2030, <<>>, <<>>, AllAges, Int2R(2)),
      Shock("Mortality", 2026, 2026, <<"B">>, <<>>, AllAges, Zero),
      Shock("Mortality", 2024, 2030, <<>>, <<"Female">>, Ages(15, 49), Int2R(-1)) }

\* the lists add_shock can build, in registration order
RegisteredShocks ==
    UNION { [1..n -> ShockPool] : n \in 0..MaxShocks }

BaseValues == {Zero, Rat(1, 4), Half, One, ThreeHalves}

\* apply_shocks of a DemographicEngine holding the registered shocks
CallApplyShocks ==
    /\ call = NoProbe
    /\ \E list \in RegisteredShocks, shock_type \in {"Mortality", "Fertility"},
          base_value \in BaseValues, year \in {2025, 2026},
          region_id \in ProbeRegions, gender \in Gender :
        /\ call' = [op |-> "apply_shocks", shocks |-> list, shock_type |-> shock_type,
                    base_value |-> base_value, year |-> year, age |-> 30,
                    gender |-> gender, region_id |-> region_id]
        /\ ret' = [op |-> "apply_shocks",
                   value |-> apply_shocks([EngineSelf EXCEPT !.shocks = list], shock_type,
                                          base_value, year, 30, gender, region_id)]
        /\ UNCHANGED <<ccm_vars, handler_vars, engine_vars, store_vars>>

\* str::trim().is_empty() on the strings the model uses
trim_is_empty(s) == s \in {"", " ", "  "}

\* for shock in &self.shocks { ... } of Scenario::validate: the messages pushed
RECURSIVE shock_errors(_, _, _)
shock_errors(list, base_year, end_year) ==
    IF list = <<>> THEN <<>>
    ELSE (IF Head(list).start_year < base_year
          THEN << <<"Shock starts before scenario base year", Head(list).name>> >>
          ELSE <<>>)
         \o (IF Head(list).end_year > end_year
             THEN << <<"Shock ends after scenario end year", Head(list).name>> >>
             ELSE <<>>)
         \o shock_errors(Tail(list), base_year, end_year)

\* the checks of Scenario::validate that come before the shocks
scenario_errors(self) ==
    (IF trim_is_empty(self.id) THEN << <<"Scenario ID is required", "">> >> ELSE <<>>)
    \o (IF trim_is_empty(self.name) THEN << <<"Scenario name is required", "">> >> ELSE <<>>)
    \o (IF self.base_year >= self.end_year
        THEN << <<"Base year must be before end year", "">> >> ELSE <<>>)
    \o (IF self.base_year < 1950 \/ self.base_year > 2100
        THEN << <<"Base year must be between 1950 and 2100", "">> >> ELSE <<>>)
    \o (IF self.end_year < 1950 \/ self.end_year > 2200
        THEN << <<"End year must be between 1950 and 2200", "">> >> ELSE <<>>)
    \o (IF self.regions = <<>>
        THEN << <<"At least one region is required", "">> >> ELSE <<>>)

\* Scenario::validate without the loop over the shocks
Scenario_validate_NoShocks(self) ==
    [valid |-> scenario_errors(self) = <<>>, errors |-> scenario_errors(self)]

\* Scenario::validate: ScenarioValidationResult { valid: errors.is_empty(), errors }
Scenario_validate(self) ==
    [valid |-> (scenario_errors(self)
                  \o shock_errors(self.shocks, self.base_year, self.end_year)) = <<>>,
     errors |-> scenario_errors(self)
                  \o shock_errors(self.shocks, self.base_year, self.end_year)]

\* the fields of a Shock that validate reads
NamedShock(name, start_year, end_year) ==
    [name |-> name, start_year |-> start_year, end_year |-> end_year]

\* scenarios around create_test_scenario: each field sound or not
ValidatedScenarios ==
    { [id |-> i, name |-> n, base_year |-> b, end_year |-> e, regions |-> r, shocks |-> x] :
        i \in {"", "test-1"}, n \in {"  ", "Test Scenario"},
        b \in {1949, 2024, 2101}, e \in {1949, 2024, 2026, 2201},
        r \in {<<>>, <<"CZ">>},
        x \in { <<>>,
                << NamedShock("inside", 2024, 2026) >>,
                << NamedShock("early", 2023, 2025) >>,
                << NamedShock("inside", 2025, 2025), NamedShock("late", 2025, 2027) >>,
                << NamedShock("wide", 1948, 2202) >> } }

CallValidate ==
    /\ call = NoProbe
    /\ \E self \in ValidatedScenarios :
        /\ call' = [op |-> "validate", self |-> self]
        /\ ret' = [op |-> "validate", value |-> Scenario_validate(self)]
        /\ UNCHANGED <<ccm_vars, handler_vars, engine_vars, store_vars>>

\* a model that holds the cohorts of `prior` is loaded again with `cohorts`
CallLoadPopulation ==
    /\ call = NoProbe
    /\ \E prior \in CohortLists, cohorts \in CohortLists :
        /\ call' = [op |-> "load_population", prior |-> prior, cohorts |-> cohorts]
        /\ ret' = [op |-> "load_population",
                   population |->
                       load_population(load_population(EmptyMap, prior), cohorts)]
        /\ UNCHANGED <<ccm_vars, handler_vars, engine_vars, store_vars>>

\* cohorts.iter().map(|c| c.count).sum()
RECURSIVE sum_counts(_)
sum_counts(cohorts) ==
    IF cohorts = <<>> THEN Zero ELSE RAdd(Head(cohorts).count, sum_counts(Tail(cohorts)))

\* the cohorts of a list that satisfy a test on the age, in list order
RECURSIVE counts_where(_, _, _)
counts_where(cohorts, lo, hi) ==
    IF cohorts = <<>> THEN <<>>
    ELSE (IF lo <= Head(cohorts).age /\ Head(cohorts).age <= hi
          THEN << Head(cohorts) >> ELSE <<>>) \o counts_where(Tail(cohorts), lo, hi)

\* the loop over (age, count) pairs sorted by age: the first age at which the
\* running sum reaches the target, 0 if none does
RECURSIVE first_age_reaching(_, _, _, _)
first_age_reaching(cohorts, ages, cumulative, target) ==
    IF ages = {} THEN 0
    ELSE LET age == CHOOSE a \in ages : \A b \in ages : a <= b
             next == RAdd(cumulative, sum_counts(counts_where(cohorts, age, age)))
         IN  IF RGe(next, target) THEN age
             ELSE first_age_reaching(cohorts, ages \ {age}, next, target)

\* calculate_median_age of engine/population.rs: counts summed per age, the
\* ages sorted
calculate_median_age(cohorts, total) ==
    IF total = Zero THEN 0
    ELSE first_age_reaching(cohorts, {cohorts[i].age : i \in 1..Len(cohorts)}, Zero,
                            RDiv(total, Int2R(2)))

\* the median of Population::calculate_metadata of engine/types.rs:
\* `for age in 0..=120`, median_age stays 0.0 if the loop never breaks
\* (the running sum at an age is the sum of the counts of the ages up to it;
\* the loop breaks at the first age whose running sum reaches half)
calculate_metadata_median_age(cohorts) ==
    LET reached == {age \in 0..120 :
                        RGe(sum_counts(counts_where(cohorts, 0, age)),
                            RDiv(sum_counts(cohorts), Int2R(2)))}
    IN  IF reached = {} THEN 0
        ELSE CHOOSE age \in reached : \A other \in reached : age <= other

\* sorted.sort_by_key(|c| c.age): a stable sort
RECURSIVE sort_by_age(_)
sort_by_age(cohorts) ==
    IF cohorts = <<>> THEN <<>>
    ELSE LET i == CHOOSE j \in 1..Len(cohorts) :
                      /\ \A k \in 1..Len(cohorts) : cohorts[j].age <= cohorts[k].age
                      /\ \A k \in 1..(j - 1) : cohorts[k].age # cohorts[j].age
         IN  << cohorts[i] >>
             \o sort_by_age(SubSeq(cohorts, 1, i - 1) \o SubSeq(cohorts, i + 1, Len(cohorts)))

\* the loop of compute_median_age over the sorted cohorts
RECURSIVE first_cohort_reaching(_, _, _)
first_cohort_reaching(sorted, cumulative, half) ==
    IF sorted = <<>> THEN 0
    ELSE IF RGe(RAdd(cumulative, Head(sorted).count), half) THEN Head(sorted).age
    ELSE first_cohort_reaching(Tail(sorted), RAdd(cumulative, Head(sorted).count), half)

\* Population::compute_median_age of types/demographic.rs
compute_median_age(cohorts, total) ==
    IF total = Zero THEN 0
    ELSE first_cohort_reaching(sort_by_age(cohorts), Zero, RDiv(total, Int2R(2)))

\* longest cohort list handed to the snapshot statistics
MaxSnapshotCohorts == 3

SnapshotPool ==
    { Cohort(0, "Female", "A", One), Cohort(10, "Female", "A", Zero),
      Cohort(30, "Male", "A", Int2R(2)), Cohort(30, "Female", "A", One),
      Cohort(120, "Male", "A", Int2R(3)), Cohort(121, "Male", "A", One) }

SnapshotLists == UNION { [1..n -> SnapshotPool] : n \in 0..MaxSnapshotCohorts }

\* the median age of one cohort list by each of the three implementations
CallMedianAge ==
    /\ call = NoProbe
    /\ \E cohorts \in SnapshotLists :
        /\ call' = [op |-> "median_age", cohorts |-> cohorts]
        /\ ret' = [op |-> "median_age",
                   population_rs |-> calculate_median_age(cohorts, sum_counts(cohorts)),
                   engine_types_rs |-> calculate_metadata_median_age(cohorts),
                   demographic_rs |-> compute_median_age(cohorts, sum_counts(cohorts))]
        /\ UNCHANGED <<ccm_vars, handler_vars, engine_vars, store_vars>>

\* the call has returned and its frame is gone
Return ==
    /\ call # NoProbe
    /\ call' = NoProbe
    /\ ret' = NoProbe
    /\ UNCHANGED <<ccm_vars, handler_vars, engine_vars, store_vars>>

NextCalls ==
    \/ CallAppliesTo \/ CallApplies \/ CallApplyShocks \/ CallValidate
    \/ CallLoadPopulation \/ CallMedianAge \/ Return

SpecCalls == Init /\ [][NextCalls]_vars

(***************************************************************************)
(* C11                                                                     *)
(***************************************************************************)
InWindow(shock, year) == shock.start_year <= year /\ year <= shock.end_year

\* C11: a shock applies to a lookup exactly when the year lies in its window,
\* the region filter is empty or All or holds the region, the gender filter is
\* empty or All or holds the gender, and the age filter is absent or All or
\* spans the age; for Shock::applies_to and for Shock::applies alike
C11_Applicability ==
    /\ call.op = "applies_to" =>
         ret.value =
           ( /\ InWindow(call.shock, call.year)
             /\ (call.shock.target_regions = <<>>
                   \/ Contains(call.shock.target_regions, call.region_id))
             /\ (call.shock.target_genders = <<>>
                   \/ Contains(call.shock.target_genders, call.gender))
             /\ (~call.shock.target_ages.some
                   \/ (call.shock.target_ages.min <= call.age
                         /\ call.age <= call.shock.target_ages.max)) )
    /\ call.op = "applies" =>
         ret.value =
           ( /\ InWindow(call.shock, call.year)
             /\ (call.shock.target_regions.all \/ call.shock.target_regions.list = <<>>
                   \/ Contains(call.shock.target_regions.list, call.region_id))
             /\ (call.shock.target_genders.all \/ call.shock.target_genders.list = <<>>
                   \/ Contains(call.shock.target_genders.list, call.gender))
             /\ (call.shock.target_ages.all
                   \/ (call.shock.target_ages.min <= call.age
                         /\ call.age <= call.shock.target_ages.max)) )

\* the same with no Specific list left empty
C11_NoEmptySpecific ==
    (call.op = "applies" /\ (call.shock.target_regions.all \/ call.shock.target_regions.list # <<>>)
                         /\ (call.shock.target_genders.all \/ call.shock.target_genders.list # <<>>))
      => C11_Applicability

\* Shock::applies_to taken alone
C11_AppliesTo == call.op = "applies_to" => C11_Applicability

(***************************************************************************)
(* C12                                                                     *)
(***************************************************************************)
\* the shock registered i-th is of the requested type and applies to the lookup
RefApplies(i) ==
    LET shock == call.shocks[i] IN
    /\ shock.shock_type = call.shock_type
    /\ InWindow(shock, call.year)
    /\ (shock.target_regions = <<>> \/ Contains(shock.target_regions, call.region_id))
    /\ (shock.target_genders = <<>> \/ Contains(shock.target_genders, call.gender))
    /\ (~shock.target_ages.some
          \/ (shock.target_ages.min <= call.age /\ call.age <= shock.target_ages.max))

\* product of the modifiers of the first n registered shocks that apply
RECURSIVE RefProduct(_)
RefProduct(n) ==
    IF n = 0 THEN One
    ELSE RMul(RefProduct(n - 1), IF RefApplies(n) THEN call.shocks[n].modifier ELSE One)

\* C12: apply_shocks returns the base value times the product of the modifiers
\* of the registered shocks of the requested type that apply, clamped to [0, 1]
\* once, after all modifiers
C12_Composition ==
    call.op = "apply_shocks" =>
        ret.value = RClamp(RMul(call.base_value, RefProduct(Len(call.shocks))), Zero, One)

\* base 0.5 with modifiers 3.0 then 0.5 gives 0.75, though 0.5 * 3.0 exceeds 1
C12_Witness ==
    /\ call.op = "apply_shocks"
    /\ call.base_value = Half
    /\ Len(call.shocks) = 2
    /\ call.shocks[1].modifier = Int2R(3) /\ RefApplies(1)
    /\ call.shocks[2].modifier = Half /\ RefApplies(2)
    /\ ret.value = Rat(3, 4)

(***************************************************************************)
(* C13                                                                     *)
(***************************************************************************)
InUnit(x) == RGe(x, Zero) /\ RLe(x, One)

\* the rates project_one_year multiplied counts by in the latest step: the
\* clamped mortality rate of every cohort it processed, and the fertility rate
\* calculate_births read for every age at which the region has women
C13_Ccm ==
    Stepped =>
        \A r \in Listed :
            /\ \A k \in DOMAIN Before.population :
                   (k[3] = r /\ k[1] <= MAX_AGE) =>
                       InUnit(clamp_mortality(
                           get_mortality_rate(Before, k[1],
                                              IF k[2] = "M" THEN "Male" ELSE "Female", r)))
            /\ \A a \in FertileWomen(r) : InUnit(get_fertility_rate(Before, a, r))

\* the rates project_year multiplied counts by in each year of the run
C13_Engine ==
    \A i \in 1..Len(years) :
        \A k \in DOMAIN engine_trail[i] :
            LET self == EngineStateBefore(i)
                gender == IF k[2] = "male" THEN "Male" ELSE "Female"
            IN  ( /\ Contains(scenario.regions, k[3])
                  /\ k[3] \in DOMAIN engine_mortality_tables
                  /\ k[3] \in DOMAIN engine_fertility_tables
                  /\ ~RLt(engine_trail[i][k], Thousandth) ) =>
                    /\ InUnit(apply_shocks(self, "Mortality",
                                  MortalityTable_get_rate(self.mortality_tables[k[3]],
                                                          k[1], gender),
                                  scenario.base_year + i - 1, k[1], gender, k[3]))
                    /\ (gender = "Female" /\ k[1] >= 15 /\ k[1] <= 49) =>
                           InUnit(apply_shocks(self, "Fertility",
                                      FertilityTable_get_rate(self.fertility_tables[k[3]], k[1]),
                                      scenario.base_year + i - 1, k[1], gender, k[3]))

\* C13: every mortality rate and every fertility rate by which a year step
\* multiplies a cohort count lies in [0, 1], whatever the loaded tables hold;
\* for CohortComponentModel::project_one_year and DemographicEngine::project_year
C13_AppliedRates == C13_Ccm /\ C13_Engine

\* what follows from fertility rates of at most 1: no more births than women of 15..49
C13_BirthsBounded ==
    Stepped =>
        RLe(Result.births,
            Sum([c \in {x \in (FERTILITY_MIN_AGE..FERTILITY_MAX_AGE) \X Listed :
                            RGt(CountBefore(x[1], "Female", x[2]), Zero)} |->
                     CountBefore(c[1], "Female", c[2])]))

(***************************************************************************)
(* C14                                                                     *)
(***************************************************************************)
\* the request in hand has an empty list or an empty or inverted year range
InvalidRequest ==
    \/ request.population = <<>>
    \/ request.mortality = <<>>
    \/ request.fertility = <<>>
    \/ request.base_year >= request.end_year

\* C14: run_projection of the projection handler returns Err, having projected
\* no year and produced no year result, whenever the population, mortality or
\* fertility list of the request is empty or base_year >= end_year; otherwise
\* it returns Ok with success = true
C14_ValidationFirst ==
    pc # "idle" =>
        /\ InvalidRequest =>
               /\ pc = "replied"
               /\ ~response.success /\ response.error # ""
               /\ response.years = <<>> /\ response.population_by_year = <<>>
               /\ results = <<>> /\ population_snapshots = <<>> /\ trail = <<>>
               /\ last = NoCall
        /\ (~InvalidRequest /\ pc = "replied") =>
               /\ response.success /\ response.error = ""
               /\ Len(response.years) >= 1

\* a request with all three lists and end_year = base_year has been refused
C14_Witness ==
    /\ pc = "replied"
    /\ request.population # <<>> /\ request.mortality # <<>> /\ request.fertility # <<>>
    /\ request.base_year = request.end_year
    /\ response.error = "End year must be greater than base year"
    /\ ~response.success

(***************************************************************************)
(* C15                                                                     *)
(***************************************************************************)
\* some shock of the validated scenario reaches outside the scenario's years
ShockOutside ==
    \E i \in 1..Len(call.self.shocks) :
        \/ call.self.shocks[i].start_year < call.self.base_year
        \/ call.self.shocks[i].end_year > call.self.end_year

\* C15: Scenario::validate returns valid = false whenever base_year >= end_year,
\* or the region list is empty, or some shock starts before base_year or ends
\* after end_year; and valid is true exactly when the error list is empty
C15_Validation ==
    call.op = "validate" =>
        /\ ret.value.valid <=> (ret.value.errors = <<>>)
        /\ (\/ call.self.base_year >= call.self.end_year
            \/ call.self.regions = <<>>
            \/ ShockOutside) => ~ret.value.valid

\* a scenario sound but for a shock that ends after end_year is refused with
\* that one error
C15_Witness ==
    /\ call.op = "validate"
    /\ call.self.base_year < call.self.end_year
    /\ call.self.regions # <<>>
    /\ ShockOutside
    /\ ~ret.value.valid
    /\ ret.value.errors = << <<"Shock ends after scenario end year", "late">> >>

(***************************************************************************)
(* C16                                                                     *)
(***************************************************************************)
\* the scenario of the run in hand has an empty year range or no region
InvalidScenario ==
    \/ scenario.base_year >= scenario.end_year
    \/ scenario.regions = <<>>

\* C16: for a scenario with base_year >= end_year or an empty region list,
\* given to handle_scenario_submit or to DemographicEngine::run_projection,
\* project_year is never invoked and no ProjectionYear, progress record or
\* accepted response is produced
C16_RejectedBeforeComputation ==
    (engine_pc # "idle" /\ InvalidScenario) =>
        /\ years = <<>>
        /\ progress = <<>>
        /\ accepted = <<>>
        /\ Len(engine_trail) <= 1
        /\ projection_result.years = <<>>

\* the parts of the same, one by one
C16_NoYear == (engine_pc # "idle" /\ InvalidScenario) => years = <<>>
C16_NoProgress == (engine_pc # "idle" /\ InvalidScenario) => progress = <<>>
C16_NoAccepted == (engine_pc # "idle" /\ InvalidScenario) => accepted = <<>>

(***************************************************************************)
(* C17, C18                                                                *)
(***************************************************************************)
\* the count of a cohort before (i) and after (i + 1) the i-th year of the run
EngineCount(i, a, g, r) ==
    LET k == <<a, IF g = "Male" THEN "male" ELSE "female", r>>
    IN  IF k \in DOMAIN engine_trail[i] THEN engine_trail[i][k] ELSE Zero

\* project_year goes through the region: it is listed and has both tables
EngineProcessed(r) ==
    /\ Contains(scenario.regions, r)
    /\ r \in DOMAIN engine_mortality_tables
    /\ r \in DOMAIN engine_fertility_tables

\* the survivors of a cohort in the i-th year: count - count * mortality_rate
EngineSurvivors(i, a, g, r) ==
    LET count == EngineCount(i, a, g, r)
    IN  IF RLt(count, Thousandth) THEN Zero
        ELSE RSub(count,
                  RMul(count,
                       apply_shocks(EngineStateBefore(i), "Mortality",
                                    MortalityTable_get_rate(engine_mortality_tables[r], a, g),
                                    scenario.base_year + i - 1, a, g, r)))

EngineRegions == {k[3] : k \in UNION {DOMAIN engine_trail[i] : i \in 1..Len(engine_trail)}}

\* C17: in DemographicEngine::project_year the survivors of the age-120 cohort
\* remain at age 120, together with the survivors arriving from age 119; they
\* are never dropped
C17_OpenInterval ==
    \A i \in 1..Len(years) :
        \A r \in EngineRegions, g \in Gender :
            EngineProcessed(r) =>
                EngineCount(i + 1, 120, g, r) =
                    RAdd(EngineSurvivors(i, 120, g, r), EngineSurvivors(i, 119, g, r))

\* a skipped region adds nothing to the births and deaths of the year
C18_Skipped ==
    \A i \in 1..Len(years) :
        (\A j \in 1..Len(scenario.regions) : ~EngineProcessed(scenario.regions[j])) =>
            /\ years[i].births = Zero
            /\ years[i].deaths = Zero

\* the cohorts of a listed region without a table keep their counts
C18_Frozen ==
    \A i \in 1..Len(years) :
        \A k \in DOMAIN engine_trail[i] :
            (Contains(scenario.regions, k[3]) /\ ~EngineProcessed(k[3])) =>
                /\ k \in DOMAIN engine_trail[i + 1]
                /\ engine_trail[i + 1][k] = engine_trail[i][k]

\* C18: a listed region that lacks a mortality table or a fertility table is
\* skipped by DemographicEngine::project_year for that year and its population
\* is frozen: every cohort count of the region is the same after the step as
\* before it, and the region contributes nothing to births or deaths
C18_MissingTablePolicy == C18_Skipped /\ C18_Frozen

(***************************************************************************)
(* C19                                                                     *)
(***************************************************************************)
\* the entries of the loaded list that carry the key (age, gender, region)
ListedAt(a, g, r) ==
    {i \in 1..Len(call.cohorts) :
        call.cohorts[i].age = a /\ call.cohorts[i].gender = g /\ call.cohorts[i].region_id = r}

\* every key of the list loaded now or before, and one that is in neither
ProbedKeys ==
    {<<call.cohorts[i].age, call.cohorts[i].gender, call.cohorts[i].region_id>> :
         i \in 1..Len(call.cohorts)}
    \cup {<<call.prior[i].age, call.prior[i].gender, call.prior[i].region_id>> :
              i \in 1..Len(call.prior)}
    \cup {<<7, "Male", "C">>}

\* C19: load_population discards all prior cohort state and installs the given
\* list, summing the counts of entries that share a key: afterwards get_count of
\* a listed key is that sum, get_count of any key not in the list is 0, and
\* total_population is the sum of all listed counts
C19_LoadReplaces ==
    call.op = "load_population" =>
        /\ \A k \in ProbedKeys :
               get_count(ret.population, k[1], k[2], k[3]) =
                   Sum([i \in ListedAt(k[1], k[2], k[3]) |-> call.cohorts[i].count])
        /\ total_population(ret.population) =
               Sum([i \in 1..Len(call.cohorts) |-> call.cohorts[i].count])

\* a model holding men of 119 is reloaded with the same key twice: the key
\* counts 4, the men of 119 are gone
C19_Witness ==
    /\ call.op = "load_population"
    /\ call.prior = << Cohort(119, "Male", "A", Int2R(2)) >>
    /\ call.cohorts = << Cohort(15, "Female", "A", Int2R(2)), Cohort(15, "Female", "A", Int2R(2)) >>
    /\ get_count(ret.population, 15, "Female", "A") = Int2R(4)
    /\ get_count(ret.population, 119, "Male", "A") = Zero
    /\ total_population(ret.population) = Int2R(4)

(***************************************************************************)
(* C20                                                                     *)
(***************************************************************************)
\* C20: in every state reached by load_population and project_one_year calls,
\* get_cohorts returns each key with a non-zero count exactly once and returns
\* no cohort whose count is 0
C20_NonZeroExport ==
    /\ \A c \in get_cohorts(population) : c.count # Zero
    /\ \A k \in DOMAIN population :
           population[k] # Zero =>
               Cardinality({c \in get_cohorts(population) :
                               /\ c.age = k[1]
                               /\ c.gender = (IF k[2] = "M" THEN "Male" ELSE "Female")
                               /\ c.region_id = k[3]
                               /\ c.count = population[k]}) = 1

\* the second half alone: every stored key with a non-zero count is returned once
C20_EachOnce ==
    \A k \in DOMAIN population :
        population[k] # Zero =>
            Cardinality({c \in get_cohorts(population) :
                            /\ c.age = k[1]
                            /\ c.gender = (IF k[2] = "M" THEN "Male" ELSE "Female")
                            /\ c.region_id = k[3]}) = 1

\* project_one_year stores no zero count: after a step nothing returned is 0
C20_AfterStep == Stepped => \A c \in get_cohorts(population) : c.count # Zero

(***************************************************************************)
(* C21                                                                     *)
(***************************************************************************)
\* the growth rate the claim gives for the totals before and after a step
GrowthAsClaimed(old_total, new_total, rate) ==
    /\ RGt(old_total, Zero) =>
           rate = RMul(RDiv(RSub(new_total, old_total), old_total), Hundred)
    /\ (old_total = Zero /\ new_total = Zero) => rate = Zero
    /\ (old_total = Zero /\ RGt(new_total, Zero)) => rate = Hundred

\* C21: the growth_rate of the ProjectionYear a year step returns is
\* (new_total - old_total) / old_total * 100 when the pre-step total is
\* positive, 0 when both totals are 0, and 100 when the pre-step total is 0 and
\* the new total is positive; for project_one_year and for project_year
C21_GrowthRate ==
    /\ Stepped =>
           GrowthAsClaimed(total_population(Before.population),
                           total_population(population), Result.growth_rate)
    /\ \A i \in 1..Len(years) :
           GrowthAsClaimed(total_population(engine_trail[i]),
                           total_population(engine_trail[i + 1]), years[i].growth_rate)

\* a step from no people to some, by immigration, reports 100
C21_Witness ==
    /\ Stepped
    /\ total_population(Before.population) = Zero
    /\ RGt(total_population(population), Zero)
    /\ Result.growth_rate = Hundred

(***************************************************************************)
(* C22                                                                     *)
(***************************************************************************)
\* C22: DemographicEngine::run_projection hands the progress sink one record
\* per projected year, after that year's ProjectionYear exists and before the
\* next year starts, in strictly increasing year order, with current_year the
\* year just projected
C22_ProgressPerYear ==
    /\ Len(progress) = Len(years)
    /\ \A k \in 1..Len(progress) :
           /\ progress[k].current_year = years[k].year
           /\ progress[k].current_year = scenario.base_year + k - 1
           /\ k > 1 => progress[k - 1].current_year < progress[k].current_year
    /\ engine_pc = "done" => Len(progress) = scenario.end_year - scenario.base_year + 1

\* [][...]_vars form of the same: a step of the run adds one ProjectionYear and
\* one progress record together, and nothing takes a record back
C22_Stepwise ==
    [][ /\ Len(years') # Len(years) =>
              \/ (Len(years') = Len(years) + 1 /\ Len(progress') = Len(progress) + 1
                    /\ progress'[Len(progress')].current_year = years'[Len(years')].year)
              \/ (years' = <<>> /\ progress' = <<>>)
        /\ Len(progress') # Len(progress) => Len(years') # Len(years) ]_vars

\* a finished run over 2024..2026 has reported 2024, 2025 and 2026
C22_Witness ==
    /\ engine_pc = "done"
    /\ Len(progress) = 3
    /\ <<progress[1].current_year, progress[2].current_year, progress[3].current_year>>
           = <<2024, 2025, 2026>>
    /\ Len(years) = 3

(***************************************************************************)
(* C30                                                                     *)
(***************************************************************************)
\* total_years of every progress record is the number of ProjectionYear records
C30_TotalYears ==
    engine_pc = "done" =>
        \A k \in 1..Len(progress) : progress[k].total_years = Len(projection_result.years)

\* percent_complete never falls, stays within [0, 100] and is 100 exactly at
\* the record for end_year
C30_Percent ==
    \A k \in 1..Len(progress) :
        /\ progress[k].percent_complete # NaN
        /\ RGe(progress[k].percent_complete, Zero)
        /\ RLe(progress[k].percent_complete, Hundred)
        /\ k > 1 => RLe(progress[k - 1].percent_complete, progress[k].percent_complete)
        /\ (progress[k].percent_complete = Hundred)
               <=> (progress[k].current_year = scenario.end_year)

\* the same for the scenarios of more than one year
C30_PercentOfSpan == scenario.base_year < scenario.end_year => C30_Percent

\* C30: in DemographicEngine::run_projection the total_years carried by every
\* progress record equals the number of ProjectionYear records the run
\* produces, and percent_complete is non-decreasing over the run, within
\* [0, 100], and equal to 100 exactly at the record for end_year
C30_ProgressConsistency == C30_TotalYears /\ C30_Percent

(***************************************************************************)
(* C23                                                                     *)
(***************************************************************************)
\* the ProjectionYear records of a run that nothing disturbs: project_year
\* applied year after year from the engine the run started with
RECURSIVE SoloYears(_, _, _, _, _)
SoloNext(self, out, year, end_year, region_ids, acc) ==
    SoloYears([self EXCEPT !.population = out.population], year + 1, end_year, region_ids,
              Append(acc, out.result))

SoloYears(self, year, end_year, region_ids, acc) ==
    IF year > end_year THEN acc
    ELSE SoloNext(self, project_year(self, year, region_ids), year, end_year, region_ids, acc)

\* C23: whether a progress publish succeeds, fails or finds no consumer, the
\* loop is neither stopped nor aborted by it: the run projects every year of
\* the range and its ProjectionResult is the one of a run whose publishes all
\* succeed
C23_FireAndForget ==
    /\ engine_pc \in {"idle", "loop", "done"}
    /\ engine_pc = "loop" => Len(years) = engine_year - scenario.base_year
    /\ engine_pc = "done" =>
           /\ Len(projection_result.years) = scenario.end_year - scenario.base_year + 1
           /\ projection_result.years =
                  SoloYears(EngineStateBefore(1), scenario.base_year, scenario.end_year,
                            scenario.regions, <<>>)

\* a run over 2024..2026 whose last publish failed has ended with its 3 records
C23_Witness ==
    /\ engine_pc = "done"
    /\ publish_result = "failed"
    /\ Len(projection_result.years) = 3
    /\ projection_result.years[3].year = scenario.end_year

(***************************************************************************)
(* C24                                                                     *)
(***************************************************************************)
\* C24: scenario runs started concurrently each own their engine and cohort
\* state: under every interleaving of two runs, the ProjectionYear records of
\* each run are those it produces when executed alone
C24_RunIsolation ==
    \A i \in RunIds :
        /\ runs[i].pc = "done" =>
               runs[i].years =
                   SoloYears(runs[i].first, runs[i].scenario.base_year,
                             runs[i].scenario.end_year, runs[i].scenario.regions, <<>>)
        /\ runs[i].pc = "loop" =>
               runs[i].years =
                   SoloYears(runs[i].first, runs[i].scenario.base_year,
                             runs[i].year - 1, runs[i].scenario.regions, <<>>)

\* two runs over different populations are both half way: each has projected
\* 2024 and not yet 2025, and their records differ
C24_Witness ==
    /\ runs[1].pc = "loop" /\ runs[2].pc = "loop"
    /\ Len(runs[1].years) = 1 /\ Len(runs[2].years) = 1
    /\ runs[1].scenario.end_year = 2025 /\ runs[2].scenario.end_year = 2025
    /\ runs[1].first.population # runs[2].first.population
    /\ runs[1].years # runs[2].years

(***************************************************************************)
(* C25                                                                     *)
(***************************************************************************)
\* the sum of the counts of the cohorts of the call aged at most a
CountUpTo(a) ==
    Sum([i \in {j \in 1..Len(call.cohorts) : call.cohorts[j].age <= a} |->
             call.cohorts[i].count])

\* the smallest age at which the counts up to it reach half the total
RefMedianAge ==
    LET total == Sum([i \in 1..Len(call.cohorts) |-> call.cohorts[i].count])
        reached == {a \in {call.cohorts[i].age : i \in 1..Len(call.cohorts)} :
                        RGe(CountUpTo(a), RDiv(total, Int2R(2)))}
    IN  IF total = Zero THEN 0
        ELSE CHOOSE a \in reached : \A b \in reached : a <= b

\* C25: for a cohort list with non-negative counts the median age is the
\* smallest age a such that the counts of the cohorts of age <= a sum to at
\* least total/2, and 0 for an empty or zero-total list; calculate_median_age,
\* Population::calculate_metadata and Population::compute_median_age agree on it
C25_MedianAge ==
    call.op = "median_age" =>
        /\ ret.population_rs = RefMedianAge
        /\ ret.engine_types_rs = RefMedianAge
        /\ ret.demographic_rs = RefMedianAge

\* the same for lists whose ages are all within 0..=120
C25_WithinMaxAge ==
    (call.op = "median_age" /\ \A i \in 1..Len(call.cohorts) : call.cohorts[i].age <= MAX_AGE)
        => C25_MedianAge

\* the two implementations that sort the ages, on every list
C25_Sorting ==
    call.op = "median_age" =>
        /\ ret.population_rs = RefMedianAge
        /\ ret.demographic_rs = RefMedianAge

(***************************************************************************)
(* C26                                                                     *)
(***************************************************************************)
\* a woman of child-bearing age with a fertility rate whom the step's migration
\* or mortality removes entirely
LeavesInStep(a, r) ==
    /\ RGt(CountBefore(a, "Female", r), Zero)
    /\ RGt(RefFertility(a, r), Zero)
    /\ RefSurvivors(a, "Female", r) = Zero

\* C26 (step order): the births of a region come from the female counts held
\* before the step's migration, mortality and aging, so a woman aged 15..49 who
\* emigrates or dies in the same year still contributes her births; migration
\* is applied to the stored count, and the deaths of a cohort are its count
\* after migration times its mortality rate limited to [0, 1]
C26_StepOrder ==
    Stepped =>
        /\ Result.births = Sum([r \in Listed |-> RefRegionBirths(r)])
        /\ \A r \in Listed : \A a \in FERTILITY_MIN_AGE..FERTILITY_MAX_AGE :
              LeavesInStep(a, r) =>
                  RGe(Result.births, RMul(CountBefore(a, "Female", r), RefFertility(a, r)))
        /\ Result.net_migration = Sum([c \in RefCohorts |-> RefMoved(c[1], c[2], c[3])])
        /\ Result.deaths =
               Sum([c \in RefCohorts |->
                       RMul(RAdd(CountBefore(c[1], c[2], c[3]), RefMoved(c[1], c[2], c[3])),
                            RefMortality(c[1], c[2], c[3]))])
        /\ \A c \in RefCohorts :
              c[1] < MAX_AGE - 1 =>
                  CountAfter(c[1] + 1, c[2], c[3]) = RefSurvivors(c[1], c[2], c[3])

\* a step in which a woman of child-bearing age leaves entirely and her births
\* are counted, and in which a cohort both migrates and loses part of its
\* post-migration count to mortality
C26_Witness ==
    /\ Stepped
    /\ \E r \in Listed : \E a \in FERTILITY_MIN_AGE..FERTILITY_MAX_AGE :
          LeavesInStep(a, r) /\ RGt(Result.births, Zero)
    /\ \E c \in RefCohorts :
          /\ RefMoved(c[1], c[2], c[3]) # Zero
          /\ RGt(RefPostMigration(c[1], c[2], c[3]), Zero)
          /\ RGt(RefMortality(c[1], c[2], c[3]), Zero)

(***************************************************************************)
(* C27                                                                     *)
(***************************************************************************)
\* the orders of a region list
Orders(regions) ==
    {p \in [1..Len(regions) -> Listed] :
        \A r \in Listed : \E i \in 1..Len(regions) : p[i] = r}

\* the entries of a population map that belong to a region
OfRegion(m, r) == [k \in {x \in DOMAIN m : x[3] = r} |-> m[k]]

\* the pre-step model with nothing but one region's cohorts and tables
OnlyRegion(r) ==
    [population |-> OfRegion(Before.population, r),
     mortality_tables |->
         [x \in DOMAIN Before.mortality_tables \cap {r} |-> Before.mortality_tables[x]],
     fertility_tables |->
         [x \in DOMAIN Before.fertility_tables \cap {r} |-> Before.fertility_tables[x]],
     migration_tables |->
         [x \in DOMAIN Before.migration_tables \cap {r} |-> Before.migration_tables[x]]]

PairwiseDistinct(regions) ==
    \A i, j \in 1..Len(regions) : regions[i] = regions[j] => i = j

\* C27 (region independence): for a region list of pairwise distinct ids the
\* resulting state and the aggregated births, deaths and net migration are the
\* same for every order of the list, and the resulting cohorts of each region
\* are those of a step over that region's pre-step cohorts and tables alone
C27_RegionIndependence ==
    (Stepped /\ PairwiseDistinct(last.regions)) =>
        /\ \A p \in Orders(last.regions) :
              \E out \in {project_one_year(Before, last.year, p)} :
                  /\ out.population = population
                  /\ out.result = Result
        /\ \A r \in Listed :
              \E solo \in {project_one_year(OnlyRegion(r), last.year, << r >>)} :
                  OfRegion(population, r) = solo.population
        /\ \E a \in {project_one_year(OnlyRegion(last.regions[1]), last.year,
                                      << last.regions[1] >>).result},
              b \in {project_one_year(OnlyRegion(last.regions[Len(last.regions)]),
                                      last.year, << last.regions[Len(last.regions)] >>).result} :
              Len(last.regions) = 2 =>
                  /\ Result.births = RAdd(a.births, b.births)
                  /\ Result.deaths = RAdd(a.deaths, b.deaths)
                  /\ Result.net_migration = RAdd(a.net_migration, b.net_migration)

\* a step over two regions that both hold people, whose births differ and
\* which leaves people in one of them
C27_Witness ==
    /\ Stepped
    /\ Len(last.regions) = 2
    /\ PairwiseDistinct(last.regions)
    /\ \A r \in Listed : \E k \in DOMAIN Before.population :
          k[3] = r /\ RGt(Before.population[k], Zero)
    /\ RefRegionBirths(last.regions[1]) # RefRegionBirths(last.regions[2])
    /\ \E r \in Listed : OfRegion(population, r) # <<>>
    /\ RGt(Result.deaths, Zero)

(***************************************************************************)
(* C28                                                                     *)
(***************************************************************************)
\* a stored cohort the step's loops do not visit
OutOfReach(k) == k[1] > MAX_AGE \/ k[3] \notin Listed

\* the pre-step model without the cohorts out of reach
WithinReach ==
    [Before EXCEPT !.population =
        [k \in {x \in DOMAIN Before.population : ~OutOfReach(x)} |-> Before.population[k]]]

\* C28: after any project_one_year(year, regions) every stored cohort has an
\* age in [0, 120] and a region id contained in regions; the cohorts loaded with
\* an age above 120 or for a region that is not listed are absent from the
\* resulting state and are not counted in deaths or net_migration
C28_StoredWithinReach ==
    Stepped =>
        /\ \A k \in DOMAIN population : k[1] \in 0..MAX_AGE /\ k[3] \in Listed
        /\ \E out \in {project_one_year(WithinReach, last.year, last.regions)} :
              /\ population = out.population
              /\ Result.deaths = out.result.deaths
              /\ Result.net_migration = out.result.net_migration
              /\ Result.births = out.result.births
        /\ Result.deaths = RefTotalDeaths
        /\ Result.net_migration = RefNetMigration

\* a step from a state that holds people above age 120 in a listed region and
\* people in a region that is not listed
C28_Witness ==
    /\ Stepped
    /\ \E k \in DOMAIN Before.population :
          k[1] > MAX_AGE /\ k[3] \in Listed /\ RGt(Before.population[k], Zero)
    /\ \E k \in DOMAIN Before.population :
          k[3] \notin Listed /\ RGt(Before.population[k], Zero)

(***************************************************************************)
(* C29                                                                     *)
(***************************************************************************)
Deleted == store_last.op = "delete_for_scenario"

\* C29: delete_for_scenario(s) removes every snapshot saved under scenario id
\* s, for all years, and leaves the snapshots of every other scenario id
\* unchanged: get(t, y) for t # s returns the same value before and after, for
\* any scenario id strings and any interleaving with other store operations
C29_DeleteForScenario ==
    Deleted =>
        /\ \A y \in SnapshotYears : ~get(store, store_last.scenario_id, y).some
        /\ \A t \in ScenarioIds \ {store_last.scenario_id} : \A y \in SnapshotYears :
              get(store, t, y) = get(store_last.before, t, y)

\* the snapshots of the deleted scenario are gone, whatever the ids
C29_Removes ==
    Deleted => \A y \in SnapshotYears : ~get(store, store_last.scenario_id, y).some

\* the other scenarios keep their snapshots if the deleted id followed by ':'
\* does not begin their id
C29_KeepsUnlessPrefixed ==
    Deleted =>
        \A t \in ScenarioIds \ {store_last.scenario_id} :
            ~starts_with(t, store_last.scenario_id \o << ":" >>) =>
                \A y \in SnapshotYears : get(store, t, y) = get(store_last.before, t, y)

\* a delete that removed a snapshot and left the snapshot of an id that begins
\* with the same letter
C29_KeepsWitness ==
    /\ Deleted
    /\ store_last.scenario_id = << "a" >>
    /\ get(store_last.before, << "a" >>, 2024).some
    /\ get(store, << "a", "b" >>, 2024).some

\* save and get touch one key: after save(s, y, p) get(s, y) is p and every
\* other get is as before; get changes nothing
C29_SaveAndGet ==
    /\ store_last.op = "save" =>
          \A t \in ScenarioIds : \A y \in SnapshotYears :
              IF t = store_last.scenario_id /\ y = store_last.year
              THEN get(store, t, y).some
              ELSE get(store, t, y) = get(store_last.before, t, y)
    /\ store_last.op = "get" => store = store_last.before

====
